---- MODULE Spec2Model ----
(***************************************************************************)
(* Straddle backtest core of alonsodt/Opciones-Financieras:                *)
(*   src/src/pricing.py    closed-form Black-Scholes price and greeks      *)
(*   src/src/strategy.py   simulate_periodic_straddle, the day loop        *)
(*   src/src/execution.py  simulate_legging_cost, the Monte Carlo legging  *)
(*                                                                         *)
(* Floats are fixed-point integers with four decimals (1.0 is Q = 10000),  *)
(* each multiplication and division rounded to the nearest unit, and a     *)
(* float NaN is the value NaN.  Time to expiry alone is kept in units of   *)
(* 1e-9 year, so that the simulator's floor max(., 1e-9) is the unit 1.    *)
(* Dates are day numbers counted from Monday 2024-01-01 (day 0).           *)
(***************************************************************************)
EXTENDS Integers, Sequences, FiniteSets, TLC

(***************************************************************************)
(* Float arithmetic                                                        *)
(***************************************************************************)
Q == 10 ^ 4

\* float("nan")
NaN == -(10 ^ 9)

\* Python's None, for the fields that are Optional
None == -(10 ^ 9) - 1

IsFinite(x) == x # NaN

Abs(x) == IF x < 0 THEN -x ELSE x

Sgn(x) == IF x < 0 THEN -1 ELSE 1

Max(a, b) == IF a >= b THEN a ELSE b

\* the element of a one-element set: The({ e(x) : x \in { v } }) is e(v) with
\* v evaluated once
The(A) == CHOOSE v \in A : TRUE

\* a / b rounded to the nearest integer, b > 0
RDiv(a, b) == Sgn(a) * ((Abs(a) + b \div 2) \div b)

\* a * b / d rounded, d > 0, without forming a product beyond 32 bits
MulDiv(a, b, d) ==
    LET x == IF Abs(a) >= Abs(b) THEN Abs(a) ELSE Abs(b)
        y == IF Abs(a) >= Abs(b) THEN Abs(b) ELSE Abs(a)
    IN  Sgn(a) * Sgn(b) * ((x \div d) * y + ((x % d) * y + d \div 2) \div d)

FAdd(a, b) == IF a = NaN \/ b = NaN THEN NaN ELSE a + b

FSub(a, b) == IF a = NaN \/ b = NaN THEN NaN ELSE a - b

FNeg(a) == IF a = NaN THEN NaN ELSE -a

FMul(a, b) == IF a = NaN \/ b = NaN THEN NaN ELSE MulDiv(a, b, Q)

\* a / b of two floats, b # 0
FDiv(a, b) ==
    IF a = NaN \/ b = NaN THEN NaN
    ELSE Sgn(a) * Sgn(b) *
         ((Abs(a) \div Abs(b)) * Q + RDiv((Abs(a) % Abs(b)) * Q, Abs(b)))

RECURSIVE SqrtSearch(_, _, _)
SqrtSearch(n, lo, hi) ==
    IF lo >= hi THEN lo
    ELSE LET mid == (lo + hi + 1) \div 2
         IN  IF mid * mid <= n THEN SqrtSearch(n, mid, hi)
             ELSE SqrtSearch(n, lo, mid - 1)

\* floor of the square root of the integer n, 0 <= n < 2^31
ISqrt(n) == SqrtSearch(n, 0, 46340)

\* math.sqrt of a float
FSqrt(x) == IF x < 20 * Q THEN ISqrt(x * Q) ELSE ISqrt(x) * 100

\* linear interpolation in a table of step `step`, the argument x >= 0 clamped
\* to the table's range
Interp(tab, step, x) ==
    LET n  == Len(tab)
        i  == x \div step
        fr == x % step
    IN  IF i >= n - 1 THEN tab[n]
        ELSE tab[i + 1] + RDiv((tab[i + 2] - tab[i + 1]) * fr, step)

\* erf(u) at u = 0.0, 0.1, ..., 3.1
ErfTab ==
    << 0, 1125, 2227, 3286, 4284, 5205, 6039, 6778, 7421, 7969, 8427,
       8802, 9103, 9340, 9523, 9661, 9763, 9838, 9891, 9928, 9953, 9970,
       9981, 9989, 9993, 9996, 9998, 9999, 9999, 10000, 10000, 10000 >>

\* math.erf, odd in its argument
Erf(u) == Sgn(u) * Interp(ErfTab, Q \div 10, Abs(u))

\* exp(-y) at y = 0.0, 0.25, ..., 10.0
ExpTab ==
    << 10000, 7788, 6065, 4724, 3679, 2865, 2231, 1738, 1353, 1054, 821,
       639, 498, 388, 302, 235, 183, 143, 111, 87, 67, 52, 41, 32, 25, 19,
       15, 12, 9, 7, 6, 4, 3, 3, 2, 2, 1, 1, 1, 1, 0 >>

\* math.exp(-y) for y >= 0; for y < 0 the series 1 - y + y^2/2 (discount
\* factors with a negative rate over a short time)
ExpNeg(y) ==
    IF y >= 0 THEN Interp(ExpTab, Q \div 4, y)
    ELSE Q - y + MulDiv(y, y, 2 * Q)

\* math.log(S / K), in units of 1e-6: 2 atanh(z), z = (S - K) / (S + K)
LnMicro(S, K) ==
    LET z  == RDiv((S - K) * 100, (S + K) \div Q)
        z2 == RDiv((z \div 10) * (z \div 10), Q)
        z3 == RDiv((z2 \div 10) * (z \div 10), Q)
    IN  2 * (z + RDiv(z3, 3))

(***************************************************************************)
(* Pricing engine (src/src/pricing.py)                                     *)
(***************************************************************************)
INV_SQRT_2PI == 3989

\* norm_pdf(x) = _INV_SQRT_2PI * exp(-0.5 * x * x)
norm_pdf(x) ==
    IF x = NaN THEN NaN
    ELSE FMul(INV_SQRT_2PI,
              ExpNeg(IF Abs(x) >= 5 * Q THEN 13 * Q ELSE MulDiv(x, x, 2 * Q)))

\* a normal cdf built on |x|: N(-x) = N(x)
norm_cdf_even(x) ==
    IF x = NaN THEN NaN
    ELSE RDiv(Q + Erf(MulDiv(Abs(x), 7071, Q)), 2)

\* norm_cdf(x) = 0.5 * (1.0 + erf(x / sqrt(2.0)))
norm_cdf(x) ==
    IF x = NaN THEN NaN
    ELSE RDiv(Q + Erf(MulDiv(x, 7071, Q)), 2)

\* a degenerate result whose price alone is undefined
NanPriceOnly ==
    [price |-> NaN, delta |-> 0, gamma |-> 0, vega_1pct |-> 0,
     theta_day |-> 0]

\* lines 72-73: BSGreeks(float("nan"), ...), every field NaN
NanGreeks ==
    [price |-> NaN, delta |-> NaN, gamma |-> NaN, vega_1pct |-> NaN,
     theta_day |-> NaN]

\* math.sqrt(T) in units of 1e-6, T in units of 1e-9 year
SqrtTMicro(T) ==
    IF T < 2000000 THEN ISqrt(T * 1000) ELSE ISqrt(T \div 10) * 100

\* lines 87-116: price and greeks from d1, d2 and the discount factors
BSFields(S, K, r, sigma, opt_type, q, days_in_year, sqrtT, sigRt,
         Nd1, Nd2, n_d1, Nmd1, Nmd2, disc_r, disc_q) ==
    LET decay == FDiv(FMul(disc_q, FMul(FMul(S, n_d1), sigma)), 2 * sqrtT)
        price == IF opt_type = "C"
                 THEN FMul(FMul(disc_q, S), Nd1) - FMul(FMul(disc_r, K), Nd2)
                 ELSE FMul(FMul(disc_r, K), Nmd2) - FMul(FMul(disc_q, S), Nmd1)
        delta == IF opt_type = "C" THEN FMul(disc_q, Nd1)
                 ELSE -FMul(disc_q, Nmd1)
        theta_year ==
                 IF opt_type = "C"
                 THEN -decay - FMul(FMul(r, disc_r), FMul(K, Nd2))
                      + FMul(FMul(q, disc_q), FMul(S, Nd1))
                 ELSE -decay + FMul(FMul(r, disc_r), FMul(K, Nmd2))
                      - FMul(FMul(q, disc_q), FMul(S, Nmd1))
        gamma == FDiv(FMul(disc_q, n_d1),
                      Max(1, FMul(S, Max(1, RDiv(sigRt, 100)))))
        vega  == FMul(FMul(disc_q, S), FMul(n_d1, sqrtT))
    IN  [price |-> price, delta |-> delta, gamma |-> gamma,
         vega_1pct |-> RDiv(vega, 100),
         theta_day |-> RDiv(theta_year, days_in_year)]

\* lines 77-85: d2, the normal cdf and pdf at d1 and d2, the discount factors
BSAtD1(S, K, T, r, sigma, opt_type, q, days_in_year, sqrtT, sigRt, d1) ==
    The({ BSFields(S, K, r, sigma, opt_type, q, days_in_year, sqrtT, sigRt,
                   Nd1, Nd2, n_d1, Nmd1, Nmd2, disc_r, disc_q) :
          Nd1    \in { norm_cdf(d1) },
          Nd2    \in { norm_cdf(d1 - RDiv(sigRt, 100)) },
          n_d1   \in { norm_pdf(d1) },
          Nmd1   \in { norm_cdf(-d1) },
          Nmd2   \in { norm_cdf(-(d1 - RDiv(sigRt, 100))) },
          disc_r \in { ExpNeg(MulDiv(r, T \div 1000, 1000000)) },
          disc_q \in { ExpNeg(MulDiv(q, T \div 1000, 1000000)) } })

\* line 77: d1 = (log(S/K) + (r - q + 0.5 sigma^2) T) / (sigma sqrtT), with
\* sigRt = sigma sqrtT in units of 1e-6
BSAtSqrtT(S, K, T, r, sigma, opt_type, q, days_in_year, sqrtTu, sigRt) ==
    The({ BSAtD1(S, K, T, r, sigma, opt_type, q, days_in_year,
                 Max(1, RDiv(sqrtTu, 100)), sigRt, d1) :
          d1 \in { MulDiv(LnMicro(S, K)
                          + MulDiv(r - q + MulDiv(sigma, sigma, 2 * Q),
                                   T \div 1000, Q),
                          Q, sigRt) } })

\* lines 76-116: the closed form of bs_price_greeks for non-degenerate finite
\* inputs
BSClosedForm(S, K, T, r, sigma, opt_type, q, days_in_year) ==
    The({ The({ BSAtSqrtT(S, K, T, r, sigma, opt_type, q, days_in_year,
                          sqrtTu, sigRt) :
                sigRt \in { Max(1, MulDiv(sigma, sqrtTu, Q)) } }) :
          sqrtTu \in { SqrtTMicro(T) } })

\* bs_price_greeks(S, K, T, r, sigma, opt_type, q, days_in_year).  A NaN
\* argument fails every comparison of the guard and propagates through the
\* closed form into every field.
bs_price_greeks(S, K, T, r, sigma, opt_type, q, days_in_year) ==
    IF S = NaN \/ K = NaN \/ T = NaN \/ r = NaN \/ sigma = NaN \/ q = NaN
    THEN NanGreeks
    ELSE IF S <= 0 \/ K <= 0 \/ T <= 0 \/ sigma <= 0
    THEN NanGreeks
    ELSE BSClosedForm(S, K, T, r, sigma, opt_type, q, days_in_year)

\* straddle_greeks: the call and the put at the same strike and expiry, summed.
straddle_greeks(S, K, T, r, sigma, q, days_in_year) ==
    The({ [price      |-> FAdd(call.price, put.price),
           delta      |-> FAdd(call.delta, put.delta),
           gamma      |-> FAdd(call.gamma, put.gamma),
           vega_1pct  |-> FAdd(call.vega_1pct, put.vega_1pct),
           theta_day  |-> FAdd(call.theta_day, put.theta_day),
           call_price |-> call.price,
           put_price  |-> put.price] :
          call \in { bs_price_greeks(S, K, T, r, sigma, "C", q, days_in_year) },
          put  \in { bs_price_greeks(S, K, T, r, sigma, "P", q, days_in_year) }
        })

RECURSIVE SumSeq(_)
SumSeq(s) == IF s = << >> THEN 0 ELSE Head(s) + SumSeq(Tail(s))

\* the sample variance (ddof = 1) of a sequence of at least two numbers
SampleVar(xs) ==
    The({ RDiv(SumSeq([k \in 1..Len(xs) |-> (xs[k] - mean) * (xs[k] - mean)]),
               Len(xs) - 1) :
          mean \in { RDiv(SumSeq(xs), Len(xs)) } })

\* a return series whose first row is filled with 0.0
log_returns_filled(close) ==
    [k \in 1..Len(close) |->
        IF k = 1 THEN 0 ELSE LnMicro(close[k], close[k - 1])]

\* line 36: np.log(close / close.shift(1)), in units of 1e-6; the first row
\* has no previous close and is NaN
log_returns(close) ==
    [k \in 1..Len(close) |->
        IF k = 1 THEN NaN ELSE LnMicro(close[k], close[k - 1])]

\* line 37: rets.rolling(window).std() at the last row of `rets`: the sample
\* standard deviation (ddof = 1) of the last `window` rows, NaN unless the
\* window holds `window` rows that are all numbers, and for a window of one
rolling_std(rets, window) ==
    IF Len(rets) < window \/ window < 2 THEN NaN
    ELSE The({ IF \E k \in 1..window : win[k] = NaN THEN NaN
               ELSE ISqrt(SampleVar(win)) :
               win \in { SubSeq(rets, Len(rets) - window + 1, Len(rets)) } })

\* hist_vol_close(close, window, annualization) at the last row of `close`:
\* the rolling standard deviation of the log-returns times
\* sqrt(annualization)
hist_vol_close(close, window, annualization) ==
    The({ IF sd = NaN THEN NaN
          ELSE RDiv(MulDiv(sd, FSqrt(annualization * Q), Q), 100) :
          sd \in { rolling_std(log_returns(close), window) } })

(***************************************************************************)
(* Calendar: day d is the d-th day after Monday 2024-01-01                 *)
(***************************************************************************)
\* Timestamp.weekday(): Monday is 0, Sunday is 6
Weekday(d) == d % 7

\* the day number at which each month of 2024 ends (exclusive)
MonthEnds == << 31, 60, 91, 121, 152, 182, 213, 244, 274, 305, 335, 366 >>

\* (idx.year, idx.month)
YearMonth(d) ==
    << 2024, CHOOSE m \in 1..12 :
                 d < MonthEnds[m] /\ (m = 1 \/ d >= MonthEnds[m - 1]) >>

\* (iso year, iso week) of idx.isocalendar(): 2024-01-01 opens ISO week 1
IsoYearWeek(d) == << 2024, d \div 7 + 1 >>

SetMin(A) == CHOOSE a \in A : \A b \in A : a <= b

Range(s) == { s[k] : k \in 1..Len(s) }

\* a weekly schedule of the Mondays present, and no other day
_roll_dates_mondays(index, freq) ==
    IF freq = "M"
    THEN { SetMin({ e \in index : YearMonth(e) = YearMonth(d) }) :
           d \in index }
    ELSE { d \in index : Weekday(d) = 0 }

\* a schedule of the last date present of each period: whether a date is on
\* it depends on the dates after it
_roll_dates_last(index, freq) ==
    LET key(d) == IF freq = "M" THEN YearMonth(d) ELSE IsoYearWeek(d)
    IN  { -SetMin({ -e : e \in { x \in index : key(x) = key(d) } }) :
          d \in index }

\* _roll_dates(index, freq): the first date present of each month ("M") or of
\* each ISO week ("W")
_roll_dates(index, freq) ==
    LET key(d) == IF freq = "M" THEN YearMonth(d) ELSE IsoYearWeek(d)
    IN  { SetMin({ e \in index : key(e) = key(d) }) : d \in index }

\* one step back from a weekend day, wherever it lands
BackOneDay(exp) ==
    IF Weekday(exp) >= 5 THEN exp - 1 ELSE exp

RECURSIVE BackToFriday(_)
BackToFriday(exp) ==
    IF Weekday(exp) >= 5 THEN BackToFriday(exp - 1) ELSE exp

\* _pick_expiry_date(roll_date, target_days)
_pick_expiry_date(roll_date, target_days) ==
    BackToFriday(roll_date + target_days)

\* the integer part of a float, the fraction dropped
PyFloor(x) == x \div Q

\* Python's round() of a float: to the nearest integer, a tie to the even one
PyRound(x) ==
    LET f   == x \div Q
        rem == x % Q
    IN  IF 2 * rem > Q THEN f + 1
        ELSE IF 2 * rem < Q THEN f
        ELSE IF f % 2 = 0 THEN f ELSE f + 1

\* _round_to_step(x, step)
_round_to_step(x, step) ==
    IF step <= 0 THEN x ELSE PyRound(FDiv(x, step)) * step

\* DataFrame.sort_values("datetime") of a frame whose dates are distinct
RECURSIVE SortDates(_)
SortDates(D) ==
    IF D = {} THEN << >>
    ELSE << SetMin(D) >> \o SortDates(D \ { SetMin(D) })

(***************************************************************************)
(* Strategy simulator (src/src/strategy.py, simulate_periodic_straddle)    *)
(***************************************************************************)
\* Bound of the model: the input series has at most MaxDays dates.
MaxDays == 3

\* the longest frame on which the call is repeated
MaxRerunDays == 1

\* The dates come from the five days Sunday 2024-01-28 to Thursday
\* 2024-02-01: the window crosses an ISO week boundary (Monday 01-29) and a
\* month boundary (02-01).
Window == 27..31

\* closes 10.40 and 10.60 (strikes 10 and 11 with strike_round = 1.0)
CloseValues == { 104000, 106000 }

\* values of a supplied volatility column: missing, and 0.80
SigmaValues == { NaN, 8000 }

\* HedgeParams: disabled (the default), or enabled with a target of 5 shares
\* and a threshold of 20 shares
HedgeValues ==
    { [enabled |-> FALSE, target_delta |-> 0, rebalance_threshold |-> 500],
      [enabled |-> TRUE, target_delta |-> 5 * Q,
       rebalance_threshold |-> 20 * Q] }

\* The arguments of one call.  has_columns: df_spy has the columns datetime
\* and close.  sigma_col: how the free name sigma_col of the function body
\* resolves: "unbound" (the module defines no such name), or bound to a
\* column that df has ("present") or has not ("absent").
Configs ==
    [ has_columns        : BOOLEAN,
      sigma_col          : { "unbound", "present", "absent" },
      roll_frequency     : { "W", "M" },
      expiry_target_days : { 2 },
      strike_round       : { Q },
      contracts          : { 1 },
      multiplier         : { 100 },
      vol_window         : { 2 },
      vol_annualization  : { 252 },
      risk_free_rate     : { 0 },
      dividend_yield     : { 0 },
      days_in_year       : { 365 },
      hedge              : HedgeValues,
      initial_cash       : { 100000 * Q } ]

\* lines 22-44: the parameter dataclasses have no __post_init__ and accept any
\* field value.  Calls whose parameters are out of range: a roll frequency
\* that is neither "W" nor "M", a vol_window of 0, a negative risk-free rate.
UncheckedConfigs ==
    { [ The({ c \in Configs : /\ c.has_columns
                               /\ c.sigma_col = u[1]
                               /\ c.roll_frequency = "M"
                               /\ ~c.hedge.enabled })
        EXCEPT ![u[2]] = u[3] ] :
      u \in { << "present", "roll_frequency", "X" >>,
              << "unbound", "roll_frequency", "X" >>,
              << "absent", "vol_window", 0 >>,
              << "present", "risk_free_rate", -100 >> } }

\* lines 22-29: a call with a target of 3 days to expiry, under which an entry
\* on a Wednesday or a Thursday has its expiry moved back to the Friday
LongDatedConfigs ==
    { [c EXCEPT !.expiry_target_days = 3] :
        c \in { c \in Configs : /\ c.has_columns
                                /\ c.sigma_col = "present"
                                /\ c.roll_frequency = "M"
                                /\ ~c.hedge.enabled } }

RECURSIVE Perms(_)
\* the orders in which the rows of the input frame can come
Perms(D) ==
    IF D = {} THEN { << >> }
    ELSE UNION { { << d >> \o p : p \in Perms(D \ { d }) } : d \in D }

(***************************************************************************)
(* src/src/execution.py: simulate_legging_cost                             *)
(***************************************************************************)
NSims == 3

MaxLegCalls == 3

\* the seeds of the calls (123 is the default of ExecutionParams)
Seeds == { 123, 42 }

LegOrders == { "C_then_P", "P_then_C" }

\* ExecutionParams with its defaults, n_sims bounded; one contract with an
\* even seed and two with an odd one
ExecutionParams(seed) ==
    [slippage_bps_combo |-> 1, slippage_bps_leg |-> 2,
     leg_delay_seconds |-> 2, n_sims |-> NSims, seed |-> seed,
     multiplier |-> 100, contracts |-> 1 + (seed % 2),
     seconds_in_year |-> 31536000]

\* ExecutionParams with no delay between the legs, and slippages of 10 and
\* 50 basis points
ImmediateParams(seed) ==
    [ExecutionParams(seed) EXCEPT !.leg_delay_seconds = 0,
                                  !.slippage_bps_combo = 10,
                                  !.slippage_bps_leg = 50]

\* The arguments of a call: spot 10.40, strike 10, 30 days, sigma 0.80.
LegCalls ==
    [ S : { 104000 }, K : { 100000 }, T : { 30 * RDiv(10 ^ 9, 365) },
      r : { 0 }, sigma : { 8000 }, q : { 0 },
      params : { ExecutionParams(seed) : seed \in Seeds }
                  \cup { ImmediateParams(123) },
      order : LegOrders ]

\* A generator shared by the calls: it is seeded once and every later call
\* goes on from the state the call before it left.
shared_rng(seed, left) == IF left = None THEN (37 * seed + 11) % 64 ELSE left

\* line 66: np.random.default_rng(seed) makes a new generator whose state is
\* a function of the seed alone; left, the state the generator of the call
\* before was left in, is not read
default_rng(seed, left) == (37 * seed + 11) % 64

\* the generator's step, a full-period congruence on 64 states
BitGen(s) == (21 * s + 13) % 64

\* standard normal deviates, the eight quantiles the generator picks from
ZTab == << -15000, -9000, -4000, -1000, 1000, 4000, 9000, 15000 >>

RECURSIVE Draws(_, _)
\* the generator states of n successive draws from state s
Draws(s, n) == IF n = 0 THEN << >> ELSE << BitGen(s) >> \o Draws(BitGen(s), n - 1)

\* line 71: rng.normal(0, scale, size=n), one deviate per generator state
normal(states, scale) ==
    [i \in 1..Len(states) |-> FMul(ZTab[(states[i] \div 8) + 1], scale)]

\* lines 32-33: price * (1 + bps / 10000)
_apply_slippage(price, bps) == FMul(price, Q + bps)

\* lines 36-54
price_straddle_combo(S, K, T, r, sigma, q, params) ==
    The({ [raw_straddle  |-> raw,
           exec_straddle |-> _apply_slippage(raw, params.slippage_bps_combo),
           total_cost    |->
               FMul(FMul(_apply_slippage(raw, params.slippage_bps_combo),
                         params.contracts * Q), params.multiplier * Q)] :
          raw \in { FAdd(bs_price_greeks(S, K, T, r, sigma, "C", q, 365).price,
                         bs_price_greeks(S, K, T, r, sigma, "P", q, 365).price)
                  } })

\* np.mean
mean(x) == IF \E i \in 1..Len(x) : x[i] = NaN THEN NaN
           ELSE RDiv(SumSeq(x), Len(x))

\* np.percentile(x, p), linear interpolation between the order statistics
percentile(x, p) ==
    IF \E i \in 1..Len(x) : x[i] = NaN THEN NaN
    ELSE LET s  == SortSeq(x, LAMBDA a, b : a < b)
             h  == p * (Len(x) - 1)
             lo == h \div 100 + 1
             hi == IF lo < Len(x) THEN lo + 1 ELSE lo
         IN  s[lo] + RDiv((s[hi] - s[lo]) * (h % 100), 100)

\* a summary whose totals leave the contract multiplier out
LegSummaryPerContract(exec_legs, combo_exec, params) ==
    LET n       == Len(exec_legs)
        extra   == [i \in 1..n |-> FSub(exec_legs[i], combo_exec)]
        scaleUp(v) == FMul(v, params.contracts * Q)
        total_exec_legs == [i \in 1..n |-> scaleUp(exec_legs[i])]
        total_extra     == [i \in 1..n |-> scaleUp(extra[i])]
    IN  [combo_exec           |-> combo_exec,
         legs_exec_mean       |-> mean(exec_legs),
         legging_extra_mean   |-> mean(extra),
         legging_extra_p50    |-> percentile(extra, 50),
         legging_extra_p90    |-> percentile(extra, 90),
         legging_extra_p99    |-> percentile(extra, 99),
         total_cost_legs_mean |-> mean(total_exec_legs),
         total_extra_mean     |-> mean(total_extra),
         total_extra_p90      |-> percentile(total_extra, 90),
         total_extra_p99      |-> percentile(total_extra, 99)]

\* lines 94-114: the summary of the simulated costs
LegSummary(exec_legs, combo_exec, params) ==
    LET n       == Len(exec_legs)
        extra   == [i \in 1..n |-> FSub(exec_legs[i], combo_exec)]
        scaleUp(v) == FMul(FMul(v, params.contracts * Q), params.multiplier * Q)
        total_exec_legs == [i \in 1..n |-> scaleUp(exec_legs[i])]
        total_extra     == [i \in 1..n |-> scaleUp(extra[i])]
    IN  [combo_exec           |-> combo_exec,
         legs_exec_mean       |-> mean(exec_legs),
         legging_extra_mean   |-> mean(extra),
         legging_extra_p50    |-> percentile(extra, 50),
         legging_extra_p90    |-> percentile(extra, 90),
         legging_extra_p99    |-> percentile(extra, 99),
         total_cost_legs_mean |-> mean(total_exec_legs),
         total_extra_mean     |-> mean(total_extra),
         total_extra_p90      |-> percentile(total_extra, 90),
         total_extra_p99      |-> percentile(total_extra, 99)]

\* leggings that trade the put first under C_then_P and the call first under
\* P_then_C
LegPricesSwapped(S, K, T, r, sigma, q, params, order, dS) ==
    The({ [i \in 1..Len(dS) |->
              _apply_slippage(
                  IF order = "C_then_P"
                  THEN FAdd(put1,
                            bs_price_greeks(FAdd(S, dS[i]), K, T, r, sigma,
                                            "C", q, 365).price)
                  ELSE FAdd(call1,
                            bs_price_greeks(FAdd(S, dS[i]), K, T, r, sigma,
                                            "P", q, 365).price),
                  params.slippage_bps_leg)] :
          call1 \in { bs_price_greeks(S, K, T, r, sigma, "C", q, 365).price },
          put1 \in { bs_price_greeks(S, K, T, r, sigma, "P", q, 365).price } })

\* lines 68-92: the execution price of each simulated legging, dS being the
\* moves of the underlying during the delay
LegPrices(S, K, T, r, sigma, q, params, order, dS) ==
    The({ [i \in 1..Len(dS) |->
              _apply_slippage(
                  IF order = "C_then_P"
                  THEN FAdd(call1,
                            bs_price_greeks(FAdd(S, dS[i]), K, T, r, sigma,
                                            "P", q, 365).price)
                  ELSE FAdd(put1,
                            bs_price_greeks(FAdd(S, dS[i]), K, T, r, sigma,
                                            "C", q, 365).price),
                  params.slippage_bps_leg)] :
          call1 \in { bs_price_greeks(S, K, T, r, sigma, "C", q, 365).price },
          put1 \in { bs_price_greeks(S, K, T, r, sigma, "P", q, 365).price } })

\* line 68 and the scale of line 71: S * sigma * sqrt(delay / seconds_in_year)
LegScale(S, sigma, params) ==
    MulDiv(FMul(S, sigma),
           SqrtTMicro(RDiv(params.leg_delay_seconds * 10 ^ 9,
                           params.seconds_in_year)),
           10 ^ 6)

\* lines 57-114: the result of a call whose generator went through states
simulate_legging_cost(S, K, T, r, sigma, q, params, order, states) ==
    LegSummary(
        LegPrices(S, K, T, r, sigma, q, params, order,
                  normal(states, LegScale(S, sigma, params))),
        price_straddle_combo(S, K, T, r, sigma, q, params).exec_straddle,
        params)

(***************************************************************************)
(* State                                                                   *)
(***************************************************************************)
VARIABLES
    pc,              \* "call", "loop", "done", "raised"; "exec" in a
                     \* behaviour that calls simulate_legging_cost, "lib"
                     \* in one that calls the library functions directly
    cfg,             \* the arguments of the call
    df,              \* the datetime column of the frame, in row order
    roll_dates,
    pos,             \* number of dates of idx already processed
    current_K, current_expiry, in_position,
    shares, cash,
    daily_rows, trades_rows,
    trades,          \* the trade log returned
    error,           \* the exception raised, or "None"
    prev,            \* << >>, or what the call before returned on this frame
    rng,             \* state the generator of the last legging call was
                     \* left in
    leg_log,         \* the legging calls made, each with its result
    lib_call         \* the last call of a library function made directly,
                     \* with its arguments and what it returned or raised

simVars == << roll_dates, pos, current_K, current_expiry, in_position,
              shares, cash, daily_rows, trades_rows >>

legVars == << rng, leg_log >>

vars == << pc, cfg, df, simVars, trades, error, prev, legVars, lib_call >>

\* no call of simulate_legging_cost made yet
InitLeg ==
    /\ rng = None
    /\ leg_log = << >>

\* no library function called directly yet
InitLib ==
    lib_call = [fn |-> "None"]

InitLocals ==
    /\ roll_dates = {}
    /\ pos = 0
    /\ current_K = None
    /\ current_expiry = None
    /\ in_position = FALSE
    /\ shares = 0
    /\ cash = 0
    /\ daily_rows = << >>
    /\ trades_rows = << >>
    /\ trades = << >>
    /\ error = "None"
    /\ prev = << >>

\* a call of simulate_periodic_straddle on any frame of at most MaxDays dates
\* of Window, its rows in any order
Init ==
    /\ pc = "call"
    /\ cfg \in Configs \cup UncheckedConfigs \cup LongDatedConfigs
    /\ \E D \in SUBSET Window :
          /\ Cardinality(D) <= MaxDays
          /\ df \in Perms(D)
    /\ InitLocals
    /\ InitLeg
    /\ InitLib

\* a process that calls simulate_legging_cost only
InitExec ==
    /\ pc = "exec"
    /\ cfg = The({ c \in Configs : /\ c.has_columns
                                    /\ c.sigma_col = "present"
                                    /\ c.roll_frequency = "M"
                                    /\ ~c.hedge.enabled })
    /\ df = << >>
    /\ InitLocals
    /\ InitLeg
    /\ InitLib

\* lines 123-124: a frame without the columns datetime and close is rejected
RaiseInvalidInput ==
    /\ pc = "call"
    /\ ~cfg.has_columns
    /\ pc' = "raised"
    /\ error' = "ValueError"
    /\ UNCHANGED << cfg, df, simVars, trades, prev, legVars, lib_call >>

\* lines 126-134: the frame is copied, sorted and indexed; then line 134 reads
\* the name sigma_col, which is no parameter and no local of the function and
\* which the module does not define
RaiseNameError ==
    /\ pc = "call"
    /\ cfg.has_columns
    /\ cfg.sigma_col = "unbound"
    /\ df' = SortDates(Range(df))
    /\ pc' = "raised"
    /\ error' = "NameError"
    /\ UNCHANGED << cfg, simVars, trades, prev, legVars, lib_call >>

\* lines 126-141: the frame is sorted and given its sigma column; then
\* _roll_dates raises on a frequency that is neither "M" nor "W" (line 73)
RaiseBadFrequency ==
    /\ pc = "call"
    /\ cfg.has_columns
    /\ cfg.sigma_col # "unbound"
    /\ cfg.roll_frequency \notin { "W", "M" }
    /\ df' = SortDates(Range(df))
    /\ pc' = "raised"
    /\ error' = "ValueError"
    /\ UNCHANGED << cfg, simVars, trades, prev, legVars, lib_call >>

\* lines 126-160: sort the frame by date, build the roll schedule, set the
\* locals of the loop
Prepare ==
    /\ pc = "call"
    /\ cfg.has_columns
    /\ cfg.sigma_col # "unbound"
    /\ cfg.roll_frequency \in { "W", "M" }
    /\ df' = SortDates(Range(df))
    /\ roll_dates' = _roll_dates(Range(df), cfg.roll_frequency)
    /\ current_K' = None
    /\ current_expiry' = None
    /\ in_position' = FALSE
    /\ shares' = 0
    /\ cash' = cfg.initial_cash
    /\ daily_rows' = << >>
    /\ trades_rows' = << >>
    /\ pos' = 0
    /\ pc' = "loop"
    /\ UNCHANGED << cfg, trades, error, prev, legVars, lib_call >>

\* a roll on the schedule or on the first date only, never on expiry
RollOnScheduleOnly(t, schedule, held, expiry) == (t \in schedule) \/ ~held

\* line 169: a roll is due
RollDue(t, schedule, held, expiry) ==
    (t \in schedule) \/ ~held \/ (expiry # None /\ t >= expiry)

\* a roll that opens without closing
HasOutgoingNever(held, K, expiry) == FALSE

\* line 171: there is an outgoing position to close
HasOutgoing(held, K, expiry) == held /\ K # None /\ expiry # None

\* a time to expiry without the floor
TimeUnfloored(expiry, t, days_in_year) ==
    (expiry - t) * RDiv(10 ^ 9, days_in_year)

\* lines 172, 200, 222: max((expiry - t).days / days_in_year, 1e-9), in units
\* of 1e-9 year
TimeToExpiry(expiry, t, days_in_year) ==
    Max((expiry - t) * RDiv(10 ^ 9, days_in_year), 1)

\* lines 176, 202, 225: price * contracts * mult
PositionValue(price, contracts, mult) == FMul(FMul(price, contracts), mult)

\* a closing that adds the mark value to cash whether it is a number or not
CreditAlways(c, value) == FAdd(c, value)

\* a closing that brings in no cash
CreditNothing(c, value) == c

\* lines 181-182 and 206-207: cash moves by a mark value only when that value
\* is finite
Credit(c, value) == IF IsFinite(value) THEN c + value ELSE c

\* an opening that is not paid for
DebitNothing(c, value) == c

Debit(c, value) == IF IsFinite(value) THEN c - value ELSE c

\* an unpriced date whose mark value is undefined like its mark price
UnmarkedUndefined ==
    [T |-> NaN, opt_price |-> NaN, opt_value |-> NaN, port_delta |-> 0,
     port_gamma |-> 0, port_vega_1pct |-> 0, port_theta_day |-> 0]

\* lines 234-241: the mark of a date on which the position cannot be priced
Unmarked ==
    [T |-> NaN, opt_price |-> NaN, opt_value |-> 0, port_delta |-> 0,
     port_gamma |-> 0, port_vega_1pct |-> 0, port_theta_day |-> 0]

\* lines 221-232: the mark-to-market of the held straddle
Mark(S, K, T, r, sigma, q, days_in_year, contracts, mult) ==
    The({ [T              |-> T,
           opt_price      |-> st.price,
           opt_value      |-> PositionValue(st.price, contracts, mult),
           port_delta     |-> PositionValue(st.delta, contracts, mult),
           port_gamma     |-> PositionValue(st.gamma, contracts, mult),
           port_vega_1pct |-> PositionValue(st.vega_1pct, contracts, mult),
           port_theta_day |-> PositionValue(st.theta_day, contracts, mult)] :
          st \in { straddle_greeks(S, K, T, r, sigma, q, days_in_year) } })

\* line 245: the hedge step runs
HedgeActive(hedge, held, port_delta) ==
    hedge.enabled /\ held /\ IsFinite(port_delta)

\* lines 247-249: the total delta is further from the target than the threshold
RebalanceDue(port_delta, held_shares, hedge) ==
    Abs(port_delta + held_shares - hedge.target_delta)
        > hedge.rebalance_threshold

\* a hedge to a flat delta whatever the target
FlatDelta(hedge, port_delta) == -port_delta

\* a hedge with the sign of the option delta wrong
DesiredSharesAdded(hedge, port_delta) == hedge.target_delta + port_delta

\* line 251
DesiredShares(hedge, port_delta) == hedge.target_delta - port_delta

\* a trade of the whole desired position
TradeWholePosition(desired_shares, held_shares) == desired_shares

\* line 252
HedgeTrade(desired_shares, held_shares) == desired_shares - held_shares

\* line 255
CashAfterHedge(c, hedge_trade, S) == c - FMul(hedge_trade, S)

\* an equity that leaves the hedge notional out
EquityNoShares(c, opt_value, held_shares, S) == FAdd(c, opt_value)

\* line 268
Equity(c, opt_value, held_shares, S) ==
    FAdd(FAdd(c, opt_value), FMul(held_shares, S))

\* lines 133-137: the sigma of the row being read.  A supplied column holds
\* the input value; otherwise it is hist_vol_close of the closes up to the row.
SigmaOfRow(col_value, closes) ==
    IF cfg.sigma_col = "present" THEN col_value
    ELSE hist_vol_close(closes, cfg.vol_window, cfg.vol_annualization)

Day(S, col_value) ==
    LET t         == df[pos + 1]
        closes    == [k \in 1..(pos + 1) |->
                         IF k <= pos THEN daily_rows[k].S ELSE S]
        r         == cfg.risk_free_rate
        q         == cfg.dividend_yield
        diy       == cfg.days_in_year
        contracts == cfg.contracts * Q
        mult      == cfg.multiplier * Q
    IN
    /\ pc = "loop"
    /\ pos < Len(df)
    /\ \E raw \in { SigmaOfRow(col_value, closes) } :
       \E sigma \in { IF IsFinite(raw) THEN raw ELSE NaN } :
       \* 1) roll: close the outgoing straddle, open the new one
       \E roll \in { RollDue(t, roll_dates, in_position, current_expiry) } :
       \E closing \in
            { roll /\ HasOutgoing(in_position, current_K, current_expiry) } :
       \E opt_value_old \in
            { IF closing /\ IsFinite(sigma)
              THEN PositionValue(
                       straddle_greeks(S, current_K,
                           TimeToExpiry(current_expiry, t, diy),
                           r, sigma, q, diy).price,
                       contracts, mult)
              ELSE NaN } :
       \E cash1 \in { IF closing THEN Credit(cash, opt_value_old) ELSE cash } :
       \E expiry2 \in
            { IF roll THEN _pick_expiry_date(t, cfg.expiry_target_days)
              ELSE current_expiry } :
       \E K2 \in
            { IF roll THEN _round_to_step(S, cfg.strike_round)
              ELSE current_K } :
       \E held2 \in { roll \/ in_position } :
       \E opt_value_new \in
            { IF roll /\ IsFinite(sigma)
              THEN PositionValue(
                       straddle_greeks(S, K2, TimeToExpiry(expiry2, t, diy),
                                       r, sigma, q, diy).price,
                       contracts, mult)
              ELSE NaN } :
       \E cash2 \in { IF roll THEN Debit(cash1, opt_value_new) ELSE cash1 } :
       \* 2) mark-to-market
       \E m \in
            { IF held2 /\ K2 # None /\ expiry2 # None /\ IsFinite(sigma)
              THEN Mark(S, K2, TimeToExpiry(expiry2, t, diy), r, sigma, q,
                        diy, contracts, mult)
              ELSE Unmarked } :
       \* 3) delta hedge
       \E rebalance \in
            { /\ HedgeActive(cfg.hedge, held2, m.port_delta)
              /\ RebalanceDue(m.port_delta, shares, cfg.hedge) } :
       \E desired \in { DesiredShares(cfg.hedge, m.port_delta) } :
       \E trade \in { IF rebalance THEN HedgeTrade(desired, shares) ELSE 0 } :
       \E cash3 \in
            { IF rebalance THEN CashAfterHedge(cash2, trade, S) ELSE cash2 } :
       \E shares2 \in { IF rebalance THEN desired ELSE shares } :
          /\ current_K' = K2
          /\ current_expiry' = expiry2
          /\ in_position' = held2
          /\ cash' = cash3
          /\ shares' = shares2
          /\ trades_rows' =
                trades_rows
                \o (IF closing
                    THEN << [datetime |-> t, type |-> "ROLL_CLOSE",
                             K |-> current_K, expiry |-> current_expiry,
                             contracts |-> contracts,
                             option_value |-> opt_value_old] >>
                    ELSE << >>)
                \o (IF roll
                    THEN << [datetime |-> t, type |-> "ROLL_OPEN",
                             K |-> K2, expiry |-> expiry2,
                             contracts |-> contracts,
                             option_value |-> opt_value_new] >>
                    ELSE << >>)
                \o (IF rebalance
                    THEN << [datetime |-> t, type |-> "HEDGE_TRADE",
                             shares_trade |-> trade, shares_pos |-> shares2,
                             price |-> S, cash_after |-> cash3] >>
                    ELSE << >>)
          \* 4) equity and the ledger row
          /\ daily_rows' =
                Append(daily_rows,
                       [datetime |-> t, S |-> S, sigma |-> sigma, K |-> K2,
                        expiry |-> expiry2, T_years |-> m.T,
                        contracts |-> contracts, shares |-> shares2,
                        opt_price_straddle |-> m.opt_price,
                        opt_value |-> m.opt_value,
                        delta_opt |-> m.port_delta,
                        gamma_opt |-> m.port_gamma,
                        vega_1pct_opt |-> m.port_vega_1pct,
                        theta_day_opt |-> m.port_theta_day,
                        cash |-> cash3,
                        equity |-> Equity(cash3, m.opt_value, shares2, S)])
          /\ pos' = pos + 1
          /\ UNCHANGED << pc, cfg, df, roll_dates, trades, error, prev,
                          legVars, lib_call >>

\* The loop body on the next date.  The row's close and volatility are
\* inputs; a call repeated on the same frame reads the values the call
\* before read, which its ledger holds.
DayStep ==
    /\ pc = "loop"
    /\ pos < Len(df)
    /\ IF prev = << >>
       THEN \E S \in CloseValues :
                \E col_value \in IF cfg.sigma_col = "present"
                                 THEN SigmaValues ELSE { NaN } :
                    Day(S, col_value)
       ELSE Day(prev[1].daily[pos + 1].S, prev[1].daily[pos + 1].sigma)

\* DataFrame.sort_values("datetime") with the default kind, quicksort, which
\* is not stable: the rows come out in date order, and the rows of one date in
\* an order the sort picks.  ties is that order for a run of three rows (a run
\* of two keeps the relative order ties gives its first two rows).
TieOrders == Perms({ 1, 2, 3 })

ApplyTie(g, ties) ==
    LET keep == SelectSeq(ties, LAMBDA x : x <= Len(g))
    IN  [j \in 1..Len(g) |-> g[keep[j]]]

RECURSIVE ConcatGroups(_, _, _)
ConcatGroups(rows, dates, ties) ==
    IF dates = << >> THEN << >>
    ELSE ApplyTie(SelectSeq(rows, LAMBDA e : e.datetime = Head(dates)), ties)
         \o ConcatGroups(rows, Tail(dates), ties)

sort_values(rows, ties) ==
    ConcatGroups(rows, SortDates({ rows[k].datetime : k \in 1..Len(rows) }),
                 ties)

\* line 292 on an empty series: DataFrame([]) has no column datetime to index
RaiseKeyError ==
    /\ pc = "loop"
    /\ pos = Len(df)
    /\ daily_rows = << >>
    /\ pc' = "raised"
    /\ error' = "KeyError"
    /\ UNCHANGED << cfg, df, simVars, trades, prev, legVars, lib_call >>

\* the orders the sort of this process can give to the rows of one date: any
\* order on a first call, and afterwards the orders that give the log the
\* call before returned when it sorted the same rows (the sort is an
\* algorithm, the same at every call)
BuildOrders ==
    { ties \in TieOrders :
        (prev # << >> /\ Len(prev[1].daily) = Len(df))
            => sort_values(prev[1].appended, ties) = prev[1].trades }

\* lines 292-298: the loop is over; the ledger is daily_rows in row order and
\* the trade log is trades_rows sorted by date
Return ==
    /\ pc = "loop"
    /\ pos = Len(df)
    /\ daily_rows # << >>
    /\ \E ties \in BuildOrders : trades' = sort_values(trades_rows, ties)
    /\ pc' = "done"
    /\ UNCHANGED << cfg, df, simVars, error, prev, legVars, lib_call >>

Next ==
    \/ RaiseInvalidInput
    \/ RaiseNameError
    \/ RaiseBadFrequency
    \/ Prepare
    \/ DayStep
    \/ RaiseKeyError
    \/ Return

\* one call of simulate_periodic_straddle
Spec == Init /\ [][Next]_vars

\* lines 100-107: the function is called again with the same arguments and
\* the same frame; what the first call returned is kept for comparison
CallAgain ==
    /\ pc = "done"
    /\ prev = << >>
    /\ Len(df) <= MaxRerunDays
    /\ prev' = << [daily |-> daily_rows, trades |-> trades,
                   appended |-> trades_rows] >>
    /\ pc' = "call"
    /\ UNCHANGED << cfg, df, simVars, trades, error, legVars, lib_call >>

\* execution.py lines 57-114: one call of simulate_legging_cost
LegCall ==
    /\ pc = "exec"
    /\ Len(leg_log) < MaxLegCalls
    /\ \E a \in LegCalls :
       \E states \in { Draws(default_rng(a.params.seed, rng),
                             a.params.n_sims) } :
          /\ rng' = states[Len(states)]
          /\ leg_log' =
                Append(leg_log,
                       [call |-> a,
                        out  |-> simulate_legging_cost(
                                     a.S, a.K, a.T, a.r, a.sigma, a.q,
                                     a.params, a.order, states)])
    /\ UNCHANGED << pc, cfg, df, simVars, trades, error, prev, lib_call >>

NextDet ==
    \/ Next
    \/ CallAgain
    \/ LegCall

\* repeated calls: of the simulator on one frame, or of the legging simulation
SpecDet == (Init \/ InitExec) /\ [][NextDet]_vars

\* lines 126-130: the function is called on the same frame cut after one of
\* its dates, the rows kept holding the closes and volatilities they held;
\* the ledger and the events of the call on the whole frame are kept for
\* comparison, and the new call has returned no log yet
CallTruncated ==
    /\ pc = "done"
    /\ prev = << >>
    /\ \E k \in 1..(Len(df) - 1) : df' = SubSeq(df, 1, k)
    /\ prev' = << [daily |-> daily_rows, appended |-> trades_rows] >>
    /\ trades' = << >>
    /\ pc' = "call"
    /\ UNCHANGED << cfg, simVars, error, legVars, lib_call >>

NextTrunc ==
    \/ Next
    \/ CallTruncated

\* a call on a frame, then a call on the frame cut after one of its dates
SpecTrunc == Init /\ [][NextTrunc]_vars

(***************************************************************************)
(* The library functions called directly                                   *)
(***************************************************************************)
\* a process that calls the pricing, schedule and solver functions only
InitDirect ==
    /\ pc = "lib"
    /\ cfg = The({ c \in Configs : /\ c.has_columns
                                    /\ c.sigma_col = "present"
                                    /\ c.roll_frequency = "M"
                                    /\ ~c.hedge.enabled })
    /\ df = << >>
    /\ InitLocals
    /\ InitLeg
    /\ InitLib

\* 30 days of a 365-day year, in units of 1e-9 year
T30 == 82191781

\* arguments of bs_price_greeks and straddle_greeks: spot, strike, time to
\* expiry and volatility positive, zero and negative
BSArgs ==
    [ S     : { -104000, 0, 98000, 104000 },
      K     : { -100000, 0, 100000, 110000 },
      T     : { -T30, 0, 1, T30 },
      r     : { 0, 500 },
      sigma : { -2000, 0, 2000, 8000 },
      q     : { 0, 200 } ]

\* lines 72-73: the inputs the guard of bs_price_greeks rejects
Degenerate(a) == a.S <= 0 \/ a.K <= 0 \/ a.T <= 0 \/ a.sigma <= 0

\* pricing.py lines 52-116: one call of bs_price_greeks
CallBS ==
    /\ pc = "lib"
    /\ lib_call.fn = "None"
    /\ \E a \in BSArgs, opt_type \in { "C", "P" } :
          lib_call' = [fn   |-> "bs_price_greeks",
                       args |-> a,
                       opt_type |-> opt_type,
                       out  |-> bs_price_greeks(a.S, a.K, a.T, a.r, a.sigma,
                                                opt_type, a.q, 365)]
    /\ UNCHANGED << pc, cfg, df, simVars, trades, error, prev, legVars >>

\* pricing.py lines 119-145: one call of straddle_greeks
CallStraddle ==
    /\ pc = "lib"
    /\ lib_call.fn = "None"
    /\ \E a \in BSArgs :
          lib_call' = [fn   |-> "straddle_greeks",
                       args |-> a,
                       out  |-> straddle_greeks(a.S, a.K, a.T, a.r, a.sigma,
                                                a.q, 365)]
    /\ UNCHANGED << pc, cfg, df, simVars, trades, error, prev, legVars >>

\* Bound of the model: the price series given to sigma_proxy_hv_vix has at
\* most MaxRows rows.
MaxRows == 4

\* vix_close of a date: no row of df_vix for it (NaN after reindex), 1.0,
\* 350.0
VixValues == { NaN, Q, 350 * Q }

\* the rows of df_spy for the dates 1..n, in the order `order`
SpyRows(closes, order) ==
    [k \in 1..Len(closes) |->
        IF order = "asc" THEN [datetime |-> k, close |-> closes[k]]
        ELSE [datetime |-> Len(closes) + 1 - k,
              close |-> closes[Len(closes) + 1 - k]]]

\* the rows of df_spy for the dates `dates`, in that order
SpyRowsOn(dates, closes) ==
    [k \in 1..Len(dates) |-> [datetime |-> dates[k], close |-> closes[k]]]

\* price series that lack some of the dates 1..MaxRows, on which df_vix may
\* have a row
SpyGaps ==
    { d \in UNION { [1..n -> 1..MaxRows] : n \in 2..3 } :
         /\ \A i, j \in 1..Len(d) : i # j => d[i] # d[j]
         /\ d[1] < d[Len(d)] }

\* calls of sigma_proxy_hv_vix: two frames that have their columns, on the
\* same dates or with dates of df_vix that df_spy lacks, and frames that lack
\* some columns
SigmaProxyArgs ==
    UNION { [ spy_cols : { TRUE }, vix_cols : { TRUE },
              df_spy : { SpyRows(c, o) : c \in [1..n -> CloseValues],
                                         o \in { "asc", "desc" } },
              vix_close : [1..n -> VixValues],
              hv_window : { 2, 3 },
              vix_weight : { 6000, Q },
              sigma_floor : { 500 }, sigma_cap : { 20000 } ] :
            n \in 1..MaxRows }
    \cup [ spy_cols : { TRUE }, vix_cols : { TRUE },
           df_spy : { SpyRowsOn(d, << 104000, 106000, 104000 >>) :
                      d \in SpyGaps },
           vix_close : [1..MaxRows -> VixValues],
           hv_window : { 2 },
           vix_weight : { 6000 },
           sigma_floor : { 500 }, sigma_cap : { 20000 } ]
    \cup [ spy_cols : BOOLEAN, vix_cols : BOOLEAN,
           df_spy : { SpyRows(<< 104000, 106000, 104000 >>, "asc") },
           vix_close : { << Q, 350 * Q, Q >> },
           hv_window : { 2 },
           vix_weight : { 6000 },
           sigma_floor : { 500 }, sigma_cap : { 20000 } ]

\* line 183: Series.ffill() up to row k: the last value at or before row k
\* that is a number
RECURSIVE ffill(_, _)
ffill(v, k) ==
    IF k = 0 THEN NaN
    ELSE IF v[k] # NaN THEN v[k] ELSE ffill(v, k - 1)

\* a clip that has no upper bound
clip_lower(x, lower, upper) ==
    IF x = NaN THEN NaN ELSE IF x < lower THEN lower ELSE x

\* line 191: Series.clip(lower, upper) of one value; NaN stays NaN
clip(x, lower, upper) ==
    IF x = NaN THEN NaN
    ELSE IF x < lower THEN lower
    ELSE IF x > upper THEN upper
    ELSE x

\* line 184: spy["vix"] / 100.0
sigma_vix(vix) == IF vix = NaN THEN NaN ELSE RDiv(vix, 100)

\* lines 187-188: w * sigma_vix + (1.0 - w) * hv
Blend(w, s_vix, hv) == FAdd(FMul(w, s_vix), FMul(Q - w, hv))

\* lines 169-193 of sigma_proxy_hv_vix on frames that have their columns: the
\* rows returned, in date order.  vix_close[d] is the vix_close of date d,
\* NaN when df_vix has no row for d.
sigma_proxy_hv_vix(df_spy, vix_close, hv_window, hv_annualization, vix_weight, sigma_floor, sigma_cap) ==
    The({ [k \in 1..Len(df_spy) |->
             The({ [datetime |-> idx[k],
                    close |-> close[k],
                    hv |-> hv,
                    vix |-> vix,
                    sigma_proxy |->
                        clip(Blend(vix_weight, sigma_vix(vix), hv),
                             sigma_floor, sigma_cap)] :
                   hv  \in { hist_vol_close(SubSeq(close, 1, k), hv_window,
                                            hv_annualization) },
                   vix \in { ffill([j \in 1..Len(idx) |-> vix_close[idx[j]]],
                                   k) } })] :
          idx   \in { SortDates({ df_spy[k].datetime :
                                   k \in 1..Len(df_spy) }) },
          close \in { [k \in 1..Len(df_spy) |->
                        The({ df_spy[j].close : j \in
                              { j \in 1..Len(df_spy) :
                                  df_spy[j].datetime =
                                     SortDates({ df_spy[i].datetime :
                                        i \in 1..Len(df_spy) })[k] } })] } })

\* a check of the price frame only
HasSpyColumns(a) == a.spy_cols

\* lines 164-167: both frames have the columns the function reads
HasColumns(a) == a.spy_cols /\ a.vix_cols

\* pricing.py lines 147-193: one call of sigma_proxy_hv_vix
CallSigmaProxy ==
    /\ pc = "lib"
    /\ lib_call.fn = "None"
    /\ \E a \in SigmaProxyArgs :
          lib_call' =
             [fn |-> "sigma_proxy_hv_vix",
              args |-> a,
              raised |-> IF HasColumns(a) THEN "None" ELSE "ValueError",
              out |-> IF HasColumns(a)
                      THEN sigma_proxy_hv_vix(a.df_spy, a.vix_close,
                                              a.hv_window, 252, a.vix_weight,
                                              a.sigma_floor, a.sigma_cap)
                      ELSE << >>]
    /\ UNCHANGED << pc, cfg, df, simVars, trades, error, prev, legVars >>

\* Bound of the model: a run makes at most MaxRequests hedge requests.
MaxRequests == 3

\* the numerical tolerance on |hedge delta|, about 1e-8: below the unit of
\* the model's arithmetic, so that a delta is within it when it rounds to 0
DeltaTol == 1

\* run_all.py lines 190-203: the scenarios of the demo, scaled to a spot of
\* 10.40 with the straddle struck at 10: a call or a put hedge at the straddle
\* strike and out of the money, and a call struck so far out that it has no
\* delta
HedgeRequests ==
    [ S : { 104000 }, K_straddle : { 100000 }, T : { T30 }, r : { 0 },
      sigma : { 2000 }, q : { 0 }, days_in_year : { 365 },
      hedge : { << "C", 100000 >>, << "P", 100000 >>, << "C", 110000 >>,
                << "C", 210000 >> } ]

\* a ratio with the sign of the base delta
HedgeRatioSameSign(base_delta, hedge_delta) == FDiv(base_delta, hedge_delta)

\* the ratio n that solves base_delta + n hedge_delta = 0
HedgeRatio(base_delta, hedge_delta) == FDiv(-base_delta, hedge_delta)

\* a solver that takes every hedge instrument
CannotNeutralizeNever(hedge_delta) == FALSE

\* the hedge instrument cannot neutralize delta
CannotNeutralize(hedge_delta) == Abs(hedge_delta) < DeltaTol

Greeks == { "price", "delta", "gamma", "vega_1pct", "theta_day" }

\* delta_neutral_with_option, the hedge solver that run_all.py imports from
\* src.backtest and calls at line 207: base is the straddle at K_straddle,
\* hedge the option of right hedge_right at K_hedge; the request fails when
\* the hedge delta is within the tolerance, and otherwise total is
\* base + n hedge in every greek.  A division by a delta of 0.0 that the
\* guard let through would raise ZeroDivisionError.
delta_neutral_with_option(S, K_straddle, K_hedge, T, r, sigma, q, hedge_right, days_in_year) ==
    The({ IF CannotNeutralize(hedge.delta)
          THEN [status |-> "DegenerateHedge", base |-> base, hedge |-> hedge]
          ELSE IF hedge.delta = 0
          THEN [status |-> "ZeroDivisionError", base |-> base,
                hedge |-> hedge]
          ELSE The({ [status |-> "solved",
                      n_hedge |-> n,
                      base |-> base,
                      hedge |-> hedge,
                      total |-> [g \in Greeks |->
                                   FAdd(base[g], FMul(n, hedge[g]))]] :
                     n \in { HedgeRatio(base.delta, hedge.delta) } }) :
          base  \in { [g \in Greeks |->
                        straddle_greeks(S, K_straddle, T, r, sigma, q,
                                        days_in_year)[g]] },
          hedge \in { bs_price_greeks(S, K_hedge, T, r, sigma, hedge_right,
                                      q, days_in_year) } })

\* run_all.py lines 205-230: the next request of a run of
\* run_delta_neutral_option_demo, each with its result
HedgeRequest ==
    /\ pc = "lib"
    /\ lib_call.fn \in { "None", "run_delta_neutral_option_demo" }
    /\ \E rows \in { IF lib_call.fn = "None" THEN << >>
                     ELSE lib_call.rows } :
          /\ Len(rows) < MaxRequests
          /\ \E a \in HedgeRequests :
                lib_call' =
                   [fn |-> "run_delta_neutral_option_demo",
                    rows |-> Append(rows,
                       [args |-> a,
                        res  |-> delta_neutral_with_option(
                                    a.S, a.K_straddle, a.hedge[2], a.T, a.r,
                                    a.sigma, a.q, a.hedge[1],
                                    a.days_in_year)])]
    /\ UNCHANGED << pc, cfg, df, simVars, trades, error, prev, legVars >>

\* the index given to _roll_dates directly: any of the dates from Saturday
\* 2024-01-27 to Tuesday 2024-02-06, two ISO week boundaries and a month
\* boundary
RollIndexDays == 26..36

\* strategy.py lines 54-73: one call of _roll_dates
CallRollDates ==
    /\ pc = "lib"
    /\ lib_call.fn = "None"
    /\ \E index \in SUBSET RollIndexDays, freq \in { "M", "W", "X" } :
          lib_call' =
             [fn |-> "_roll_dates",
              index |-> index,
              freq |-> freq,
              raised |-> IF freq \in { "M", "W" } THEN "None"
                         ELSE "ValueError",
              out |-> IF freq \in { "M", "W" } THEN _roll_dates(index, freq)
                      ELSE {}]
    /\ UNCHANGED << pc, cfg, df, simVars, trades, error, prev, legVars >>

\* the target days given to _pick_expiry_date directly: every residue of the
\* week from every weekday of RollIndexDays
TargetDays == 0..7

\* strategy.py lines 76-88: one call of _pick_expiry_date; steps is the number
\* of times the loop of lines 85-86 moved the date one day back
CallPickExpiry ==
    /\ pc = "lib"
    /\ lib_call.fn = "None"
    /\ \E roll_date \in RollIndexDays, target_days \in TargetDays :
          lib_call' =
             [fn |-> "_pick_expiry_date",
              roll_date |-> roll_date,
              target_days |-> target_days,
              out |-> _pick_expiry_date(roll_date, target_days),
              steps |-> (roll_date + target_days)
                           - _pick_expiry_date(roll_date, target_days)]
    /\ UNCHANGED << pc, cfg, df, simVars, trades, error, prev, legVars >>

\* the spots and strike increments given to _round_to_step directly: spots
\* between increments, on an increment and halfway between two
RoundSpots == { 75000, 97500, 100000, 102500, 104000, 106000, 107500, 125000 }

RoundSteps == { 0, 5000, Q, 25000, 50000 }

\* strategy.py lines 91-94: one call of _round_to_step
CallRoundToStep ==
    /\ pc = "lib"
    /\ lib_call.fn = "None"
    /\ \E x \in RoundSpots, step \in RoundSteps :
          lib_call' =
             [fn |-> "_round_to_step",
              x |-> x,
              step |-> step,
              out |-> _round_to_step(x, step)]
    /\ UNCHANGED << pc, cfg, df, simVars, trades, error, prev, legVars >>

NextLib ==
    \/ CallBS
    \/ CallStraddle
    \/ CallSigmaProxy
    \/ HedgeRequest
    \/ CallRollDates
    \/ CallPickExpiry
    \/ CallRoundToStep

\* one direct call of a library function, or one run of hedge requests
SpecLib == InitDirect /\ [][NextLib]_vars

NextAny ==
    \/ Next
    \/ NextLib

\* one call of the simulator, or one direct call of a library function
SpecAny == (Init \/ InitDirect) /\ [][NextAny]_vars

(***************************************************************************)
(* Properties                                                              *)
(***************************************************************************)
\* the positions in log of the events of one type on date t
EventIdx(log, t, type) ==
    { i \in 1..Len(log) : log[i].datetime = t /\ log[i].type = type }

Opens == { i \in 1..Len(trades_rows) : trades_rows[i].type = "ROLL_OPEN" }

Closes == { i \in 1..Len(trades_rows) : trades_rows[i].type = "ROLL_CLOSE" }

\* the state the loop carried into the date of row k
SharesBefore(k) == IF k = 1 THEN 0 ELSE daily_rows[k - 1].shares

CashBefore(k) == IF k = 1 THEN cfg.initial_cash ELSE daily_rows[k - 1].cash

\* the cash that the roll events of date t account for: the mark value of
\* the event of that type, when there is one and it is a number
Moved(t, type) ==
    IF EventIdx(trades_rows, t, type) = {} THEN 0
    ELSE LET v == trades_rows[The(EventIdx(trades_rows, t, type))].option_value
         IN  IF IsFinite(v) THEN v ELSE 0

\* the mark value of a straddle (K, expiry) on the date of row k
MarkValueAt(k, K, expiry) ==
    PositionValue(
        straddle_greeks(daily_rows[k].S, K,
                        TimeToExpiry(expiry, daily_rows[k].datetime,
                                     cfg.days_in_year),
                        cfg.risk_free_rate, daily_rows[k].sigma,
                        cfg.dividend_yield, cfg.days_in_year).price,
        cfg.contracts * Q, cfg.multiplier * Q)

\* what the hedge trade of the date of row k cost, 0 without a trade
HedgeCost(k) ==
    LET H == EventIdx(trades_rows, daily_rows[k].datetime, "HEDGE_TRADE")
    IN  IF H = {} THEN 0
        ELSE FMul(trades_rows[The(H)].shares_trade, trades_rows[The(H)].price)

C2_OneStraddle ==
    /\ pc \in { "loop", "done" } /\ pos >= 1 =>
          /\ in_position
          /\ Cardinality(Opens) = Cardinality(Closes) + 1
          /\ \E j \in Opens :
                /\ \A i \in Opens : i <= j
                /\ current_K = trades_rows[j].K
                /\ current_expiry = trades_rows[j].expiry
    /\ Len(trades_rows) >= 1 => 1 \in Opens
    /\ \A i \in Closes :
          /\ i + 1 \in Opens
          /\ trades_rows[i + 1].datetime = trades_rows[i].datetime
          /\ \E j \in Opens :
                /\ j < i
                /\ \A m \in (j + 1)..(i - 1) : m \notin Opens /\ m \notin Closes
                /\ trades_rows[i].K = trades_rows[j].K
                /\ trades_rows[i].expiry = trades_rows[j].expiry

\* a finished run with two rolls, the second straddle at another strike than
\* the first
C2_Witness ==
    /\ pc = "done"
    /\ Cardinality(Closes) = 2
    /\ \E i \in Closes : trades_rows[i].K # trades_rows[i + 1].K

C4_RollWhenDue ==
    \A k \in 1..Len(daily_rows) :
        LET t      == daily_rows[k].datetime
            due    == \/ k = 1
                      \/ t \in roll_dates
                      \/ t >= daily_rows[k - 1].expiry
            opened == EventIdx(trades_rows, t, "ROLL_OPEN") # {}
            closed == EventIdx(trades_rows, t, "ROLL_CLOSE") # {}
        IN  /\ opened <=> due
            /\ ~due => /\ ~closed
                       /\ daily_rows[k].K = daily_rows[k - 1].K
                       /\ daily_rows[k].expiry = daily_rows[k - 1].expiry
            /\ k > 1 /\ t \in roll_dates /\ t < daily_rows[k - 1].expiry =>
                  /\ opened
                  /\ \E i \in EventIdx(trades_rows, t, "ROLL_CLOSE") :
                        /\ trades_rows[i].K = daily_rows[k - 1].K
                        /\ trades_rows[i].expiry = daily_rows[k - 1].expiry

\* a finished run with a date on which nothing was due and a date, off the
\* schedule, on which the straddle held had reached its expiry
C4_Witness ==
    /\ pc = "done"
    /\ \E k \in 2..Len(daily_rows) :
          /\ daily_rows[k].datetime \notin roll_dates
          /\ daily_rows[k].datetime < daily_rows[k - 1].expiry
    /\ \E k \in 2..Len(daily_rows) :
          /\ daily_rows[k].datetime \notin roll_dates
          /\ daily_rows[k].datetime >= daily_rows[k - 1].expiry
          /\ EventIdx(trades_rows, daily_rows[k].datetime, "ROLL_OPEN") # {}

\* C5 as stated: on a roll date with defined volatility, cash after the roll
\* is cash before plus the mark value of the outgoing straddle minus that of
\* the new one, and the two events record these amounts.
C5_RollCash ==
    \A k \in 1..Len(daily_rows) :
        LET t == daily_rows[k].datetime
        IN  /\ EventIdx(trades_rows, t, "ROLL_OPEN") # {}
            /\ IsFinite(daily_rows[k].sigma)
            => \A new \in { MarkValueAt(k, daily_rows[k].K,
                                        daily_rows[k].expiry) } :
               \A old \in { IF k = 1 THEN 0
                            ELSE MarkValueAt(k, daily_rows[k - 1].K,
                                             daily_rows[k - 1].expiry) } :
                   /\ FAdd(daily_rows[k].cash, HedgeCost(k)) =
                          FSub(FAdd(CashBefore(k), old), new)
                   /\ \A i \in EventIdx(trades_rows, t, "ROLL_OPEN") :
                          trades_rows[i].option_value = new
                   /\ \A i \in EventIdx(trades_rows, t, "ROLL_CLOSE") :
                          trades_rows[i].option_value = old

\* C5, amended: on a roll date with defined volatility each of the two mark
\* values that is a number moves cash, the outgoing one in, the new one out;
\* a mark value that is undefined, which it is when the volatility is zero or
\* negative, moves no cash; the two events record the mark values, defined
\* or not.
C5_RollCashWhenPriced ==
    \A k \in 1..Len(daily_rows) :
        LET t == daily_rows[k].datetime
        IN  /\ EventIdx(trades_rows, t, "ROLL_OPEN") # {}
            /\ IsFinite(daily_rows[k].sigma)
            => \A new \in { MarkValueAt(k, daily_rows[k].K,
                                        daily_rows[k].expiry) } :
               \A old \in { IF k = 1 THEN 0
                            ELSE MarkValueAt(k, daily_rows[k - 1].K,
                                             daily_rows[k - 1].expiry) } :
                   /\ daily_rows[k].cash + HedgeCost(k) =
                          CashBefore(k)
                          + (IF IsFinite(old) THEN old ELSE 0)
                          - (IF IsFinite(new) THEN new ELSE 0)
                   /\ daily_rows[k].sigma > 0 => IsFinite(old) /\ IsFinite(new)
                   /\ daily_rows[k].sigma <= 0 => ~IsFinite(new)
                   /\ \A i \in EventIdx(trades_rows, t, "ROLL_OPEN") :
                          trades_rows[i].option_value = new
                   /\ \A i \in EventIdx(trades_rows, t, "ROLL_CLOSE") :
                          trades_rows[i].option_value = old

\* a roll that closes one priced straddle and opens another at another
\* strike, cash moving by the difference of the two marks
C5_Witness ==
    \E k \in 2..Len(daily_rows) :
        /\ daily_rows[k].sigma # NaN
        /\ daily_rows[k].sigma > 0
        /\ daily_rows[k].K # daily_rows[k - 1].K
        /\ \E i \in EventIdx(trades_rows, daily_rows[k].datetime, "ROLL_CLOSE") :
              /\ trades_rows[i].option_value # NaN
              /\ trades_rows[i].option_value > 0
              /\ trades_rows[i + 1].option_value # NaN
              /\ trades_rows[i + 1].option_value > 0
              /\ trades_rows[i + 1].option_value # trades_rows[i].option_value

\* C6: with hedging enabled and a defined option delta, a hedge trade is made
\* on a date exactly when |delta + shares held - target| is strictly above the
\* threshold; the trade brings the shares to target - delta, its quantity is
\* new shares minus old shares, and cash goes down by quantity times spot.
C6_HedgeRule ==
    cfg.hedge.enabled =>
        \A k \in 1..Len(daily_rows) :
            IsFinite(daily_rows[k].delta_opt) =>
                LET t == daily_rows[k].datetime
                    H == EventIdx(trades_rows, t, "HEDGE_TRADE")
                    afterRoll == CashBefore(k) + Moved(t, "ROLL_CLOSE")
                                 - Moved(t, "ROLL_OPEN")
                IN  /\ H # {} <=>
                           Abs(daily_rows[k].delta_opt + SharesBefore(k)
                               - cfg.hedge.target_delta)
                               > cfg.hedge.rebalance_threshold
                    /\ Cardinality(H) <= 1
                    /\ \A i \in H :
                          /\ daily_rows[k].shares =
                                 cfg.hedge.target_delta - daily_rows[k].delta_opt
                          /\ trades_rows[i].shares_pos = daily_rows[k].shares
                          /\ trades_rows[i].shares_trade =
                                 daily_rows[k].shares - SharesBefore(k)
                          /\ trades_rows[i].price = daily_rows[k].S
                          /\ daily_rows[k].cash =
                                 afterRoll
                                 - FMul(trades_rows[i].shares_trade,
                                        daily_rows[k].S)
                          /\ trades_rows[i].cash_after = daily_rows[k].cash

\* a hedged run with a date that traded and a later date, priced and off
\* target, that stayed within the threshold and did not
C6_Witness ==
    /\ cfg.hedge.enabled
    /\ \E k \in 2..Len(daily_rows) :
          /\ EventIdx(trades_rows, daily_rows[k - 1].datetime, "HEDGE_TRADE")
                 # {}
          /\ EventIdx(trades_rows, daily_rows[k].datetime, "HEDGE_TRADE") = {}
          /\ IsFinite(daily_rows[k].opt_value)
          /\ daily_rows[k].delta_opt + daily_rows[k].shares
                 # cfg.hedge.target_delta

\* C7: the shares of two consecutive rows differ only if a HEDGE_TRADE is
\* recorded on the later date, and then by its shares_trade; a roll leaves the
\* shares alone; with hedging disabled the shares are 0 in every row and no
\* HEDGE_TRADE is recorded.
C7_SharesPersist ==
    /\ \A k \in 1..Len(daily_rows) :
          LET H == EventIdx(trades_rows, daily_rows[k].datetime, "HEDGE_TRADE")
          IN  /\ daily_rows[k].shares # SharesBefore(k) => H # {}
              /\ \A i \in H :
                    trades_rows[i].shares_trade =
                        daily_rows[k].shares - SharesBefore(k)
    /\ pc \in { "loop", "done" } /\ pos >= 1 =>
          shares = daily_rows[pos].shares
    /\ ~cfg.hedge.enabled =>
          /\ \A k \in 1..Len(daily_rows) : daily_rows[k].shares = 0
          /\ \A i \in 1..Len(trades_rows) :
                trades_rows[i].type # "HEDGE_TRADE"

\* a hedge position carried unchanged through a roll, and changed on a later
\* date by a trade added to what was held
C7_Witness ==
    /\ \E k \in 2..Len(daily_rows) :
          /\ EventIdx(trades_rows, daily_rows[k].datetime, "ROLL_CLOSE") # {}
          /\ EventIdx(trades_rows, daily_rows[k].datetime, "HEDGE_TRADE") = {}
          /\ daily_rows[k].shares # 0
          /\ daily_rows[k].shares = daily_rows[k - 1].shares
    /\ \E k \in 2..Len(daily_rows) :
          /\ daily_rows[k - 1].shares # 0
          /\ EventIdx(trades_rows, daily_rows[k].datetime, "HEDGE_TRADE") # {}

C9_OneRowPerDate ==
    cfg.has_columns =>
        /\ pc # "raised"
        /\ pc = "done" =>
              /\ Len(daily_rows) = Len(df)
              /\ \A k \in 1..Len(daily_rows) : daily_rows[k].datetime = df[k]
              /\ \A k \in 2..Len(daily_rows) :
                    daily_rows[k - 1].datetime < daily_rows[k].datetime

NanFields(o) == { f \in DOMAIN o : o[f] = NaN }

\* C11: bs_price_greeks returns a result on degenerate inputs, and every field
\* of it is undefined whenever S <= 0, K <= 0, T <= 0 or sigma <= 0, for the
\* call and for the put; no result is partly defined; straddle_greeks on such
\* inputs returns every aggregate undefined.
C11_DegenerateUndefined ==
    /\ lib_call.fn = "bs_price_greeks" =>
          /\ DOMAIN lib_call.out
                = { "price", "delta", "gamma", "vega_1pct", "theta_day" }
          /\ Degenerate(lib_call.args) =>
                NanFields(lib_call.out) = DOMAIN lib_call.out
          /\ NanFields(lib_call.out) \in { {}, DOMAIN lib_call.out }
    /\ lib_call.fn = "straddle_greeks" /\ Degenerate(lib_call.args) =>
          NanFields(lib_call.out) = DOMAIN lib_call.out

\* a put priced at expiry (T = 0) with spot, strike and volatility positive,
\* and a straddle on a non-positive strike
C11_Witness ==
    \/ /\ lib_call.fn = "bs_price_greeks"
       /\ lib_call.opt_type = "P"
       /\ lib_call.args.T = 0
       /\ lib_call.args.S > 0 /\ lib_call.args.K > 0
       /\ lib_call.args.sigma > 0
       /\ lib_call.out.price = NaN /\ lib_call.out.theta_day = NaN
    \/ /\ lib_call.fn = "straddle_greeks"
       /\ lib_call.args.K <= 0
       /\ lib_call.args.S > 0 /\ lib_call.args.T > 0
       /\ lib_call.out.delta = NaN

\* exp(-rate T), T in units of 1e-9 year (lines 80-81)
Discount(rate, T) == ExpNeg(MulDiv(rate, T \div 1000, 1000000))

\* call - put - (S exp(-qT) - K exp(-rT)) for the two legs of a straddle
ParityGap(a, o) ==
    o.call_price - o.put_price
    - (FMul(Discount(a.q, a.T), a.S) - FMul(Discount(a.r, a.T), a.K))

\* the rounding of the model's arithmetic in ParityGap: half a unit in each
\* of the four products, and N(d) + N(-d) within one unit of 1, scaled by
\* S exp(-qT) or K exp(-rT)
ParityTol(a) == 3 + Max(a.S, a.K) \div Q

BlendOf(row, w) == Blend(w, sigma_vix(row.vix), row.hv)

\* C13: every defined sigma_proxy returned by sigma_proxy_hv_vix lies in
\* [floor, cap]: a blend above the cap is returned as the cap, one below the
\* floor as the floor, and one inside the interval unchanged.
C13_Clipped ==
    lib_call.fn = "sigma_proxy_hv_vix" /\ lib_call.raised = "None" =>
       \A k \in 1..Len(lib_call.out) :
       \A b \in { BlendOf(lib_call.out[k], lib_call.args.vix_weight) } :
          lib_call.out[k].sigma_proxy # NaN =>
             /\ lib_call.out[k].sigma_proxy >= lib_call.args.sigma_floor
             /\ lib_call.out[k].sigma_proxy <= lib_call.args.sigma_cap
             /\ b > lib_call.args.sigma_cap =>
                   lib_call.out[k].sigma_proxy = lib_call.args.sigma_cap
             /\ b < lib_call.args.sigma_floor =>
                   lib_call.out[k].sigma_proxy = lib_call.args.sigma_floor
             /\ b >= lib_call.args.sigma_floor
                   /\ b <= lib_call.args.sigma_cap =>
                   lib_call.out[k].sigma_proxy = b

\* with floor 0.05 and cap 2.0, one row whose blend is 3.5 returned as 2.0
\* and one whose blend is 0.01 returned as 0.05
C13_Witness ==
    /\ lib_call.fn = "sigma_proxy_hv_vix"
    /\ lib_call.raised = "None"
    /\ lib_call.args.sigma_floor = 500 /\ lib_call.args.sigma_cap = 20000
    /\ \E k \in 1..Len(lib_call.out) :
          /\ BlendOf(lib_call.out[k], lib_call.args.vix_weight) = 35000
          /\ lib_call.out[k].sigma_proxy = 20000
    /\ \E k \in 1..Len(lib_call.out) :
          /\ BlendOf(lib_call.out[k], lib_call.args.vix_weight) = 100
          /\ lib_call.out[k].sigma_proxy = 500

C15_InvalidInputFailsFast ==
    /\ pc \in { "loop", "done", "raised" } /\ ~cfg.has_columns =>
          /\ pc = "raised"
          /\ error = "ValueError"
          /\ pos = 0
          /\ daily_rows = << >> /\ trades_rows = << >> /\ trades = << >>
    /\ lib_call.fn = "sigma_proxy_hv_vix"
          /\ ~(lib_call.args.spy_cols /\ lib_call.args.vix_cols) =>
          /\ lib_call.raised = "ValueError"
          /\ lib_call.out = << >>

\* the simulator has raised on a frame of several rows that lacks a column,
\* or the volatility builder has on an external frame that lacks one
C15_Witness ==
    \/ /\ pc = "raised"
       /\ ~cfg.has_columns
       /\ Len(df) >= 2
       /\ error = "ValueError"
    \/ /\ lib_call.fn = "sigma_proxy_hv_vix"
       /\ lib_call.args.spy_cols /\ ~lib_call.args.vix_cols
       /\ lib_call.raised = "ValueError"

\* a configuration the simulator should not accept: a roll frequency other
\* than "W" and "M", a window that is not positive, a negative rate
InvalidConfig(c) ==
    \/ c.roll_frequency \notin { "W", "M" }
    \/ c.vol_window <= 0
    \/ c.risk_free_rate < 0

\* C16: an invalid configuration fails fast: with an invalid roll frequency
\* or a non-positive rate or window parameter the call is rejected, and no
\* date is simulated.
C16_ConfigRejected ==
    pc \in { "loop", "done", "raised" } /\ InvalidConfig(cfg) =>
       /\ pc = "raised"
       /\ pos = 0
       /\ daily_rows = << >>

\* a statistic of the scaled extra cost against the same statistic of the
\* per-unit extra cost times contracts times multiplier; the per-unit
\* statistic is rounded to one unit before it is scaled
Scaled(total, unit, params) ==
    IF total = NaN \/ unit = NaN THEN total = unit
    ELSE Abs(total - unit * params.contracts * params.multiplier)
            <= params.contracts * params.multiplier

\* C17: the legging summary contains the mean and the 50th, 90th and 99th
\* percentiles of the per-unit extra cost and of the scaled extra cost, and
\* every scaled statistic is the per-unit one times contracts times
\* multiplier.
C17_SummaryStatistics ==
    \A i \in 1..Len(leg_log) :
       /\ { "legging_extra_mean", "legging_extra_p50", "legging_extra_p90",
            "legging_extra_p99", "total_extra_mean", "total_extra_p50",
            "total_extra_p90", "total_extra_p99" }
             \subseteq DOMAIN leg_log[i].out
       /\ \A st \in { "mean", "p50", "p90", "p99" } :
             Scaled(leg_log[i].out["total_extra_" \o st],
                    leg_log[i].out["legging_extra_" \o st],
                    leg_log[i].call.params)

\* C17 as the code has it: the scaled extra cost has a mean and a 90th and a
\* 99th percentile, and no 50th percentile.
C17_SummaryAsReturned ==
    \A i \in 1..Len(leg_log) :
       /\ { "legging_extra_mean", "legging_extra_p50", "legging_extra_p90",
            "legging_extra_p99", "total_extra_mean", "total_extra_p90",
            "total_extra_p99" }
             \subseteq DOMAIN leg_log[i].out
       /\ "total_extra_p50" \notin DOMAIN leg_log[i].out
       /\ \A st \in { "mean", "p90", "p99" } :
             Scaled(leg_log[i].out["total_extra_" \o st],
                    leg_log[i].out["legging_extra_" \o st],
                    leg_log[i].call.params)

\* a summary for two contracts of multiplier 100 whose mean extra cost is not
\* zero
C17_Witness ==
    /\ Len(leg_log) >= 1
    /\ leg_log[1].call.params.contracts = 2
    /\ leg_log[1].out.legging_extra_mean # NaN
    /\ leg_log[1].out.legging_extra_mean # 0
    /\ leg_log[1].out.legging_extra_p90 # leg_log[1].out.legging_extra_p50
    /\ leg_log[1].out.total_extra_mean # leg_log[1].out.legging_extra_mean

\* the hedge requests of the run so far
Requests == IF lib_call.fn = "run_delta_neutral_option_demo"
            THEN lib_call.rows ELSE << >>

Period(d, freq) == IF freq = "M" THEN YearMonth(d) ELSE IsoYearWeek(d)

\* C20: _roll_dates returns exactly the index dates d for which no earlier
\* index date lies in the same calendar (year, month) for "M", or in the same
\* ISO (year, week) for "W": one date of the index per period present, the
\* first available one.
C20_RollDates ==
    lib_call.fn = "_roll_dates" /\ lib_call.raised = "None" =>
       /\ lib_call.out =
             { d \in lib_call.index :
                  ~ \E e \in lib_call.index :
                       /\ e < d
                       /\ Period(e, lib_call.freq) = Period(d, lib_call.freq) }
       /\ lib_call.out \subseteq lib_call.index
       /\ Cardinality(lib_call.out)
             = Cardinality({ Period(d, lib_call.freq) : d \in lib_call.index })

\* a weekly schedule on an index that lacks Monday 2024-01-29 and has the
\* Tuesday, and that spans three ISO weeks
C20_Witness ==
    /\ lib_call.fn = "_roll_dates"
    /\ lib_call.freq = "W"
    /\ 28 \notin lib_call.index
    /\ 29 \in lib_call.out
    /\ Cardinality(lib_call.out) = 3
    /\ Cardinality(lib_call.index) > 5

\* the events of a log dated on or before d, in the order they were appended
UpTo(events, d) == SelectSeq(events, LAMBDA e : e.datetime <= d)

\* C21: no look-ahead.  When the simulator has run on a frame and then on the
\* frame cut after one of its dates d, the second ledger is the first ledger's
\* rows up to d and the second call emitted the first call's events dated on or
\* before d: nothing recorded for a date depends on a later date.
C21_NoLookAhead ==
    (pc = "done" /\ prev # << >> /\ Len(df) < Len(prev[1].daily))
        => /\ daily_rows = SubSeq(prev[1].daily, 1, Len(df))
           /\ trades_rows = UpTo(prev[1].appended, df[Len(df)])

\* a frame of three dates whose last date opens a new month and rolls, cut
\* after its second date
C21_Witness ==
    /\ pc = "done"
    /\ prev # << >>
    /\ Len(df) = 2
    /\ Len(prev[1].daily) = 3
    /\ \E k \in 1..Len(prev[1].appended) :
          /\ prev[1].appended[k].type = "ROLL_CLOSE"
          /\ prev[1].appended[k].datetime > df[2]
    /\ Len(trades_rows) < Len(prev[1].appended)

\* the expiry rule: the nominal date entry + target when that is Monday to
\* Friday, otherwise the Friday immediately before it
ExpiryRule(entry, target, exp) ==
    LET nominal == entry + target
    IN  /\ Weekday(exp) < 5
        /\ exp <= nominal
        /\ nominal - exp <= 2
        /\ Weekday(nominal) < 5 => exp = nominal
        /\ Weekday(nominal) >= 5 =>
              /\ Weekday(exp) = 4
              /\ \A d \in (exp + 1)..nominal : Weekday(d) >= 5

\* C22: the expiry chosen at every position open is the entry date plus the
\* configured target days when that date is Monday to Friday, otherwise the
\* Friday immediately before it: always a weekday, never later than entry plus
\* target and never more than two days earlier, so the weekend loop makes at
\* most two steps.
C22_ExpiryRule ==
    /\ \A k \in 1..Len(trades_rows) :
          trades_rows[k].type = "ROLL_OPEN" =>
             ExpiryRule(trades_rows[k].datetime, cfg.expiry_target_days,
                        trades_rows[k].expiry)
    /\ lib_call.fn = "_pick_expiry_date" =>
          /\ ExpiryRule(lib_call.roll_date, lib_call.target_days, lib_call.out)
          /\ lib_call.steps \in 0..2

\* an entry whose nominal expiry is a Sunday: the loop steps back twice
C22_Witness ==
    /\ lib_call.fn = "_pick_expiry_date"
    /\ Weekday(lib_call.roll_date + lib_call.target_days) = 6
    /\ lib_call.steps = 2
    /\ Weekday(lib_call.out) = 4

\* a strike on the increment grid and no further than half an increment from
\* the spot
StrikeRule(spot, step, strike) ==
    /\ strike % step = 0
    /\ 2 * Abs(strike - spot) <= step

\* the ROLL_OPEN event in force on the date of ledger row k: the last one
\* emitted on or before that date
OpenInForce(k) ==
    { i \in Opens :
        /\ trades_rows[i].datetime <= daily_rows[k].datetime
        /\ \A j \in Opens :
              trades_rows[j].datetime <= daily_rows[k].datetime => j <= i }

\* C23: with a positive strike increment the strike chosen at an open is an
\* integer multiple of the increment and the nearest one to the entry spot,
\* at most half an increment away; and every ledger row records the strike and
\* the expiry of the last ROLL_OPEN on or before its date, so both stay
\* constant until the next open.
C23_StrikeRule ==
    /\ lib_call.fn = "_round_to_step" /\ lib_call.step > 0 =>
          StrikeRule(lib_call.x, lib_call.step, lib_call.out)
    /\ \A k \in 1..Len(daily_rows) :
          /\ OpenInForce(k) # {}
          /\ \A i \in OpenInForce(k) :
                /\ daily_rows[k].K = trades_rows[i].K
                /\ daily_rows[k].expiry = trades_rows[i].expiry
                /\ (cfg.strike_round > 0
                    /\ trades_rows[i].datetime = daily_rows[k].datetime)
                      => StrikeRule(daily_rows[k].S, cfg.strike_round,
                                    daily_rows[k].K)

\* a spot halfway between two strikes of a 0.5 grid, rounded to the even one
C23_Witness ==
    /\ lib_call.fn = "_round_to_step"
    /\ lib_call.step = 5000
    /\ lib_call.x = 102500
    /\ lib_call.out = 100000

\* the vix_close of the most recent row of df_vix dated on or before d, NaN
\* when there is none
LastObservation(vix_close, d) ==
    LET seen == { j \in DOMAIN vix_close : j <= d /\ vix_close[j] # NaN }
    IN  IF seen = {} THEN NaN
        ELSE vix_close[CHOOSE j \in seen : \A i \in seen : i <= j]

\* C24: for every date d of the price series the external volatility
\* component is the index level of the most recent reference observation dated
\* on or before d, divided by 100, also when that observation is on a date the
\* price series lacks; it is undefined only when there is no such observation.
C24_ExternalComponent ==
    (lib_call.fn = "sigma_proxy_hv_vix" /\ lib_call.raised = "None") =>
       \A k \in 1..Len(lib_call.out) :
          sigma_vix(lib_call.out[k].vix)
             = sigma_vix(LastObservation(lib_call.args.vix_close,
                                         lib_call.out[k].datetime))

\* the price of one option at a spot, for the arguments a of a legging call
LegPriceAt(a, spot, opt_type) ==
    bs_price_greeks(spot, a.K, a.T, a.r, a.sigma, opt_type, a.q, 365).price

\* the moves of the underlying the generator of a call draws: seeded by the
\* call's seed, one deviate per draw, scaled by S sigma sqrt(delay)
MovesOf(a) ==
    normal(Draws(default_rng(a.params.seed, None), a.params.n_sims),
           LegScale(a.S, a.sigma, a.params))

\* the extra cost per unit of one draw: both legs with the leg slippage, the
\* first at today's spot and the second at the spot after the delay, less the
\* straddle at today's spot with the combo slippage
ExtraOfDraw(a, dS) ==
    LET first  == IF a.order = "C_then_P" THEN "C" ELSE "P"
        second == IF a.order = "C_then_P" THEN "P" ELSE "C"
    IN  FSub(FMul(FAdd(LegPriceAt(a, a.S, first),
                       LegPriceAt(a, FAdd(a.S, dS), second)),
                  Q + a.params.slippage_bps_leg),
             FMul(FAdd(LegPriceAt(a, a.S, "C"), LegPriceAt(a, a.S, "P")),
                  Q + a.params.slippage_bps_combo))

\* raw straddle * (leg_bps - combo_bps) / 10000, to within one unit of rounding
\* for each of the two slippage products
SlippageGap(a, extra) ==
    Abs(extra - RDiv((LegPriceAt(a, a.S, "C") + LegPriceAt(a, a.S, "P"))
                        * (a.params.slippage_bps_leg
                              - a.params.slippage_bps_combo), Q)) <= 2

\* C25: the extra cost per unit of every simulated draw is (first leg at
\* today's spot + second leg at the spot after the delay) * (1 + leg_bps/10000)
\* minus (call + put at today's spot) * (1 + combo_bps/10000), the call being
\* the first leg under C_then_P and the put under P_then_C, so the summary
\* holds the mean and the percentiles of those draws; with no delay between
\* the legs the mean and every percentile are the raw straddle price times
\* (leg_bps - combo_bps)/10000.  Stated of the call just made: every call is
\* the last of the log when it returns.
C25_ExtraCost ==
    \A i \in { Len(leg_log) } \ { 0 } :
       \A a \in { leg_log[i].call } :
          \A extra \in { [j \in 1..a.params.n_sims |->
                            ExtraOfDraw(a, MovesOf(a)[j])] } :
             /\ leg_log[i].out.legging_extra_mean = mean(extra)
             /\ leg_log[i].out.legging_extra_p50 = percentile(extra, 50)
             /\ leg_log[i].out.legging_extra_p90 = percentile(extra, 90)
             /\ leg_log[i].out.legging_extra_p99 = percentile(extra, 99)
             /\ a.params.leg_delay_seconds = 0 =>
                   \A st \in { "mean", "p50", "p90", "p99" } :
                      SlippageGap(a, leg_log[i].out["legging_extra_" \o st])

\* a call with no delay, whose draws all cost the slippage difference, after a
\* call with a delay whose draws differ
C25_Witness ==
    /\ Len(leg_log) >= 2
    /\ leg_log[1].call.params.leg_delay_seconds > 0
    /\ leg_log[1].call.order = "C_then_P"
    /\ leg_log[1].out.legging_extra_p90 # leg_log[1].out.legging_extra_p50
    /\ leg_log[2].call.params.leg_delay_seconds = 0
    /\ leg_log[2].out.legging_extra_mean > 50
    /\ leg_log[2].out.legging_extra_p99 = leg_log[2].out.legging_extra_p50

\* option delta plus hedge shares as ledger row k records them, less the
\* target
OffTarget(k) ==
    daily_rows[k].delta_opt + daily_rows[k].shares - cfg.hedge.target_delta

\* C26: with hedging enabled and a non-negative rebalance threshold, on every
\* date whose option delta is defined the recorded option delta plus the
\* recorded hedge shares is within the threshold of the target delta at the
\* end of the date.
C26_WithinThreshold ==
    (cfg.hedge.enabled /\ cfg.hedge.rebalance_threshold >= 0) =>
        \A k \in 1..Len(daily_rows) :
            IsFinite(daily_rows[k].delta_opt) =>
                Abs(OffTarget(k)) <= cfg.hedge.rebalance_threshold

\* a hedged run with a priced date brought exactly to the target by a trade of
\* a non-zero option delta, and a later priced date left off the target
C26_Witness ==
    /\ cfg.hedge.enabled
    /\ \E j, k \in 1..Len(daily_rows) :
          /\ j < k
          /\ IsFinite(daily_rows[j].opt_price_straddle)
          /\ daily_rows[j].delta_opt # 0
          /\ daily_rows[j].shares # 0
          /\ OffTarget(j) = 0
          /\ IsFinite(daily_rows[k].opt_price_straddle)
          /\ OffTarget(k) # 0
          /\ daily_rows[k].shares = daily_rows[j].shares

\* the straddle held at the start of the date of row k, marked at that date's
\* spot and volatility; nothing is held at the start of the first date
HeldMark(k) ==
    IF k = 1 THEN 0
    ELSE MarkValueAt(k, daily_rows[k - 1].K, daily_rows[k - 1].expiry)

\* the start-of-date portfolio of row k at that date's prices
StartValue(k) ==
    FAdd(FAdd(CashBefore(k), HeldMark(k)),
         FMul(SharesBefore(k), daily_rows[k].S))

\* two amounts equal to within one unit of the arithmetic's resolution, the
\* rounding of shares times spot
Near(a, b) == IsFinite(a) /\ IsFinite(b) /\ Abs(a - b) <= 1

\* C27 as stated: on a date whose volatility is defined and whose spot and
\* strikes are positive, the equity of the row is the start-of-date cash plus
\* the straddle held at the start marked at the date's spot and volatility
\* plus the start-of-date shares times the spot.
C27_SelfFinancing ==
    \A k \in 1..Len(daily_rows) :
        (/\ IsFinite(daily_rows[k].sigma)
         /\ daily_rows[k].S > 0
         /\ daily_rows[k].K > 0
         /\ k > 1 => daily_rows[k - 1].K > 0)
        => Near(daily_rows[k].equity, StartValue(k))

\* C27, amended: rolls and hedge trades are self-financing on a date whose
\* volatility is defined and positive and whose spot and strikes are positive:
\* the equity of the row is the start-of-date cash plus the held straddle
\* marked at the date's spot and volatility plus the start-of-date shares times
\* the spot; the first row's equity is initial_cash; and equity differs from
\* the row before only by the revaluation of the straddle and of the shares
\* held.  Stated of the row the loop has just appended: every row is the last
\* row of the state its date left.
C27_SelfFinancingWhenPriced ==
    \A k \in { Len(daily_rows) } \ { 0 } :
        (/\ IsFinite(daily_rows[k].sigma)
         /\ daily_rows[k].sigma > 0
         /\ daily_rows[k].S > 0
         /\ daily_rows[k].K > 0
         /\ k > 1 => daily_rows[k - 1].K > 0)
        => \A held \in { HeldMark(k) } :
              /\ Near(daily_rows[k].equity,
                      FAdd(FAdd(CashBefore(k), held),
                           FMul(SharesBefore(k), daily_rows[k].S)))
              /\ k = 1 => daily_rows[k].equity = cfg.initial_cash
              /\ (k > 1 /\ IsFinite(daily_rows[k - 1].equity)) =>
                    Near(daily_rows[k].equity - daily_rows[k - 1].equity,
                         (held - daily_rows[k - 1].opt_value)
                         + (FMul(SharesBefore(k), daily_rows[k].S)
                            - FMul(SharesBefore(k), daily_rows[k - 1].S)))

\* a priced date with a roll and a hedge trade, shares held from the date
\* before, and an equity that is not the equity of the date before
C27_Witness ==
    \E k \in 2..Len(daily_rows) :
        /\ IsFinite(daily_rows[k].sigma)
        /\ daily_rows[k].sigma > 0
        /\ daily_rows[k - 1].shares # 0
        /\ EventIdx(trades_rows, daily_rows[k].datetime, "ROLL_CLOSE") # {}
        /\ EventIdx(trades_rows, daily_rows[k].datetime, "HEDGE_TRADE") # {}
        /\ IsFinite(daily_rows[k - 1].equity)
        /\ daily_rows[k].equity # daily_rows[k - 1].equity
        /\ daily_rows[k].cash # daily_rows[k - 1].cash

\* C28: on a date whose volatility is undefined the row's portfolio greeks are
\* undefined and the hedge is not rebalanced: with hedging enabled no
\* HEDGE_TRADE is emitted on that date, and the shares, and without a roll the
\* cash, are those of the end of the date before.
C28_NoHedgeWhenUndefined ==
    \A k \in 1..Len(daily_rows) :
        daily_rows[k].sigma = NaN =>
            /\ daily_rows[k].delta_opt = NaN
            /\ daily_rows[k].gamma_opt = NaN
            /\ daily_rows[k].vega_1pct_opt = NaN
            /\ daily_rows[k].theta_day_opt = NaN
            /\ cfg.hedge.enabled =>
                  /\ EventIdx(trades_rows, daily_rows[k].datetime,
                              "HEDGE_TRADE") = {}
                  /\ daily_rows[k].shares = SharesBefore(k)
                  /\ EventIdx(trades_rows, daily_rows[k].datetime,
                              "ROLL_OPEN") = {}
                        => daily_rows[k].cash = CashBefore(k)

\* C29: a roll on a date whose volatility is undefined still emits ROLL_OPEN,
\* and ROLL_CLOSE when a straddle was held, with an undefined option_value;
\* the new strike and expiry are set from that date and its spot; the roll
\* moves no cash; and the cash of every ledger row is a number.
C29_UnpricedRoll ==
    /\ \A k \in 1..Len(daily_rows) :
          LET t == daily_rows[k].datetime
          IN  (daily_rows[k].sigma = NaN /\ RollDue(t, roll_dates, k > 1,
                  IF k > 1 THEN daily_rows[k - 1].expiry ELSE None)) =>
                 /\ Cardinality(EventIdx(trades_rows, t, "ROLL_OPEN")) = 1
                 /\ Cardinality(EventIdx(trades_rows, t, "ROLL_CLOSE"))
                       = IF k > 1 THEN 1 ELSE 0
                 /\ \A i \in EventIdx(trades_rows, t, "ROLL_OPEN")
                              \cup EventIdx(trades_rows, t, "ROLL_CLOSE") :
                       trades_rows[i].option_value = NaN
                 /\ \A i \in EventIdx(trades_rows, t, "ROLL_OPEN") :
                       /\ trades_rows[i].K = daily_rows[k].K
                       /\ trades_rows[i].expiry = daily_rows[k].expiry
                 /\ StrikeRule(daily_rows[k].S, cfg.strike_round,
                               daily_rows[k].K)
                 /\ ExpiryRule(t, cfg.expiry_target_days, daily_rows[k].expiry)
                 /\ daily_rows[k].cash + HedgeCost(k) = CashBefore(k)
    /\ \A k \in 1..Len(daily_rows) :
          /\ daily_rows[k].cash # NaN
          /\ daily_rows[k].cash # None
    /\ cash # NaN

\* a priced straddle rolled to another strike on a date without volatility,
\* the cash of the date before carried over
C29_Witness ==
    \E k \in 2..Len(daily_rows) :
        /\ daily_rows[k].sigma = NaN
        /\ daily_rows[k - 1].sigma # NaN
        /\ daily_rows[k - 1].cash < cfg.initial_cash
        /\ daily_rows[k].K # daily_rows[k - 1].K
        /\ daily_rows[k].expiry # daily_rows[k - 1].expiry
        /\ EventIdx(trades_rows, daily_rows[k].datetime, "ROLL_CLOSE") # {}
        /\ daily_rows[k].cash = daily_rows[k - 1].cash

\* a straddle that has reached its expiry on the date of row k is closed on
\* that date: a ROLL_CLOSE of it is emitted, valued as a number when the
\* volatility is positive, and the row records another expiry
ClosedAtExpiry(k) ==
    (k > 1 /\ daily_rows[k].datetime >= daily_rows[k - 1].expiry) =>
        /\ \E i \in EventIdx(trades_rows, daily_rows[k].datetime,
                             "ROLL_CLOSE") :
              /\ trades_rows[i].K = daily_rows[k - 1].K
              /\ trades_rows[i].expiry = daily_rows[k - 1].expiry
              /\ daily_rows[k].sigma > 0 =>
                    /\ IsFinite(trades_rows[i].option_value)
                    /\ trades_rows[i].option_value >= 0
        /\ EventIdx(trades_rows, daily_rows[k].datetime, "ROLL_OPEN") # {}

\* C30 as stated: a straddle is closed on the first date on or after its
\* expiry, valued with a positive time to expiry, before anything is marked;
\* with a target of at least 3 days every ledger row records an expiry after
\* its date and a strictly positive time to expiry.
C30_NeverPastExpiry ==
    \A k \in 1..Len(daily_rows) :
        /\ ClosedAtExpiry(k)
        /\ cfg.expiry_target_days >= 3 =>
              /\ daily_rows[k].expiry > daily_rows[k].datetime
              /\ IsFinite(daily_rows[k].T_years)
              /\ daily_rows[k].T_years > 0

\* C30, amended: as C30, the strictly positive time to expiry being recorded
\* in every row of a date whose volatility is defined (a row of a date without
\* volatility records an undefined time to expiry); on a date whose volatility
\* is positive the mark is a number, the pricing never being given a time to
\* expiry that is zero or negative.
C30_NeverPastExpiryWhenPriced ==
    \A k \in 1..Len(daily_rows) :
        /\ ClosedAtExpiry(k)
        /\ cfg.expiry_target_days >= 3 =>
              /\ daily_rows[k].expiry > daily_rows[k].datetime
              /\ IsFinite(daily_rows[k].sigma) =>
                    /\ IsFinite(daily_rows[k].T_years)
                    /\ daily_rows[k].T_years > 0
              /\ daily_rows[k].sigma = NaN => daily_rows[k].T_years = NaN
              /\ daily_rows[k].sigma > 0 =>
                    IsFinite(daily_rows[k].opt_price_straddle)

\* a run with a target of 3 days in which a priced straddle reaches its expiry
\* and is closed for a number, and the straddle opened on that date expires on
\* the Friday before the weekend its target falls on
C30_Witness ==
    /\ cfg.expiry_target_days >= 3
    /\ \E k \in 2..Len(daily_rows) :
          /\ daily_rows[k].datetime >= daily_rows[k - 1].expiry
          /\ daily_rows[k].datetime \notin roll_dates
          /\ daily_rows[k].sigma > 0
          /\ daily_rows[k].T_years > 0
          /\ daily_rows[k].expiry
                < daily_rows[k].datetime + cfg.expiry_target_days
          /\ \E i \in EventIdx(trades_rows, daily_rows[k].datetime,
                               "ROLL_CLOSE") :
                trades_rows[i].option_value > 0

====
